---- MODULE Spec2Model ----
(***************************************************************************)
(* Model of the MoneyMaster trading core: the strategy lifecycle state     *)
(* machine of BaseStrategy (src/src/trading/core/strategy.py), its polling *)
(* task (strategies/deepseek/strategy.py), and the position / PnL ledger   *)
(* kept by BaseStrategy.buy / sell with the RiskManager checks             *)
(* (src/src/trading/core/risk.py, position.py).                            *)
(*                                                                         *)
(* Numbers.  Quantities are whole lots and prices whole ticks.  Every      *)
(* Decimal that can carry a fraction (average price, position value, PnL,  *)
(* commission, ratios) is an integer count of 1/DecimalScale units.  Sums  *)
(* and products are exact, as they are for Decimal at these magnitudes;    *)
(* a Decimal quotient is rounded half-even to the model's resolution.      *)
(*                                                                         *)
(* The module also models the per-symbol broadcast worker of the API       *)
(* (src/src/api/websocket.py, variables fan...) and the exchange websocket *)
(* clients (src/src/trading/clients/okx/ws_manager.py and                  *)
(* src/src/trading/base/ws_client.py, variables ws... and bc...).  Each    *)
(* part has its own specification; the other parts stay as constructed.    *)
(***************************************************************************)
EXTENDS Integers, Sequences, FiniteSets, TLC

\* ---------------------------------------------------------------- bounds
DecimalScale == 100
MaxPrice == 2
MaxQty == 2
MaxOrders == 2
MaxFills == 3
MaxDay == 1
MaxTasks == 2
MaxSubs == 2
MaxMsgs == 3
MaxTime == 3
BatchSize == 2
MaxConcurrentBroadcasts == 1
MaxWsEvents == 3
MaxLoss == 1
MaxAdvCalls == 3
MaxAdvTime == 3
MaxBookPrice == 3
MaxBookSize == 1
MaxBookLevels == 3
MaxBookUpdates == 2
MaxLoopOps == 4
MaxTradeCache == 2
MaxKlineCache == 2
MaxCacheKeys == 3
MaxCacheOps == 3
MaxKlines == 2
MaxKlineTs == 3
MaxKlineOps == 4

\* OKXConfig.WS_MAX_RETRIES
WS_MAX_RETRIES == 5

\* "price is None" of buy / sell / Order
NoPrice == -1

VARIABLES
    fsm,          \* class of BaseStrategy._state
    running,      \* BaseStrategy._is_running
    taskRef,      \* BaseStrategy._task (0 = None)
    taskPc,       \* position of every polling task created by start()
    taskCancel,   \* cancellation requested on the task (Task.cancel())
    taskPrice,    \* the price run() fetched for the tick in flight (0 = none)
    store,        \* the StrategyState row: status and last_error
    callPc,       \* position of each caller's lifecycle call in progress
    callPre,      \* what the caller saw when it invoked the call
    last,         \* the lifecycle call that completed most recently
    fence,        \* "stop" / "pause" / "error" since the last start(), or "none"
    ledger,       \* position, PnL totals, daily PnL, trade records
    lastTrade,    \* the buy / sell call that completed most recently
    openMark,     \* trade count and total_pnl when the position last left flat
    initQty,      \* quantity loaded from the state store at construction
    nOrders,      \* buy / sell calls made so far
    price,        \* last price the client reports
    today,        \* calendar day of datetime.now()
    validator,    \* which _validate_trade_params the strategy class has
    limit,        \* RiskLimit
    rate,         \* commission_rate, in 1/DecimalScale
    fanConns,     \* ConnectionManager.active_connections[symbol]
    fanQueue,     \* ConnectionManager.broadcast_queues[symbol]
    fanPc,        \* the broadcast worker: "wait" on the queue or "send" (in gather)
    fanDelivered, \* per websocket, the messages handed to send_text
    fanLastBatch, \* the batch the worker took most recently
    fanTaken,     \* batches taken so far
    fanPubTimes,  \* clock value at each broadcast_to_symbol call
    fanClock,     \* time.time(), in ticks
    fanStable,    \* no websocket joined or left since the first publication
    fanSends,     \* the send_text tasks: awaited by gather, left behind, failing, failed;
                  \* queue: the symbol has a broadcast queue; workers: its live worker tasks
                  \* quiet: the last publication was queued and no websocket has
                  \* joined, left or broken since
    ws,           \* the OKXWebSocketManager: its fields and its recovery in progress
    wsCreds,      \* api_key, api_secret and passphrase are all given
    wsInbox,      \* OKXWebSocketManager._message_queue
    wsDispatched, \* messages passed to on_message, in order
    wsSeen,       \* the kind of every message taken from the socket, in order
    wsCache,      \* the last message the on_message callback stored (0 = none)
    wsOp,         \* the subscribe / unsubscribe call made most recently
    nWsOps,       \* subscribe / unsubscribe calls made so far
    bc,           \* a WebSocketClient of base/ws_client.py
    adv,          \* the advisory side of a strategy: class, cached analysis, last analysis time
    advLast,      \* the analysis request on_tick made most recently
    advClock,     \* time.time() of the advisory side, in ticks
    nAdvCalls,    \* analysis requests made so far
    book,         \* OKXWebSocketClient._orderbook.asks as <<price, size>> levels
    mdBook,       \* MarketDataManager.orderbooks[symbol]['asks']
    bookLast,     \* the order-book message handled most recently
    nBookUpdates, \* order-book messages handled so far
    lp,           \* an OKXWebSocketManager seen through its socket and its tasks
    okxTrades,    \* OKXWebSocketClient._trades: an OrderedDict as <<key, value>> pairs
    okxCandles,   \* OKXWebSocketClient._candlesticks: one OrderedDict per interval
    okxLast,      \* the trade or candle message handled most recently
    nOkxOps,      \* trade and candle messages handled so far
    klineDb,      \* the candlestick table: timestamp -> close, 0 for no row
    klineCache,   \* the Redis entry of the symbol and interval: <<timestamp, close>> pairs
    klineLast,    \* the KlineManager call made most recently
    nKlineOps     \* KlineManager calls made so far

lifeVars == <<fsm, running, taskRef, taskPc, taskCancel, taskPrice, store, callPc, callPre, last, fence>>
ledgerVars == <<ledger, lastTrade, openMark, initQty, nOrders>>
envVars == <<price, today>>
cfgVars == <<validator, limit, rate>>
fanVars == <<fanConns, fanQueue, fanPc, fanDelivered, fanLastBatch, fanTaken, fanPubTimes,
             fanClock, fanStable, fanSends>>
wsVars == <<ws, wsCreds, wsInbox, wsDispatched, wsSeen, wsCache, wsOp, nWsOps, bc>>
advVars == <<adv, advLast, advClock, nAdvCalls>>
bookVars == <<book, mdBook, bookLast, nBookUpdates>>
okxVars == <<okxTrades, okxCandles, okxLast, nOkxOps>>
klineVars == <<klineDb, klineCache, klineLast, nKlineOps>>
cacheVars == <<okxVars, klineVars>>
sideVars == <<advVars, bookVars, lp, cacheVars>>
coreVars == <<lifeVars, ledgerVars, envVars, cfgVars>>
vars == <<fsm, running, taskRef, taskPc, taskCancel, taskPrice, store, callPc, callPre, last, fence,
          ledger, lastTrade, openMark, initQty, nOrders, price, today, validator, limit, rate,
          fanVars, wsVars, sideVars>>

\* ------------------------------------------------------- Decimal helpers
Abs(x) == IF x < 0 THEN -x ELSE x

Min(a, b) == IF a < b THEN a ELSE b

Sign(x) == IF x < 0 THEN -1 ELSE 1

\* Decimal.__truediv__ under the default context (ROUND_HALF_EVEN)
DecDiv(n, d) ==
    LET an == Abs(n)
        ad == Abs(d)
        q == an \div ad
        r == an % ad
        m == IF 2 * r < ad THEN q
             ELSE IF 2 * r > ad THEN q + 1
             ELSE IF q % 2 = 0 THEN q ELSE q + 1
    IN Sign(n) * Sign(d) * m

\* ------------------------------------------------------------ risk.py
\* Position.position_value: quantity * avg_price
PositionValue(quantity, avg_price) == quantity * avg_price

\* Position.margin_ratio: margin / position_value if position_value > 0 else 0
MarginRatio(margin, quantity, avg_price) ==
    IF PositionValue(quantity, avg_price) > 0
    THEN DecDiv(margin * DecimalScale * DecimalScale, PositionValue(quantity, avg_price))
    ELSE 0

\* RiskLimit.max_available_capital
MaxAvailableCapital ==
    limit.total_capital * limit.max_capital_usage - limit.reserve_capital * DecimalScale

\* variant of CheckOrder without the min_order_value test
CheckOrderNoMin(side, quantity, px, L, market_price) ==
    LET order_value == quantity * (IF px = NoPrice \/ px = 0 THEN market_price ELSE px)
        deviation == DecDiv(Abs(px - market_price) * DecimalScale, market_price)
        new_position_value ==
            IF side = "buy"
            THEN PositionValue(L.quantity, L.avg_price) + order_value * DecimalScale
            ELSE PositionValue(L.quantity, L.avg_price) - order_value * DecimalScale
    IN IF order_value > limit.max_order_value THEN [ok |-> FALSE, by |-> "check_order"]
       ELSE IF px # NoPrice /\ px # 0 /\ deviation > limit.price_deviation
            THEN [ok |-> FALSE, by |-> "check_order"]
       ELSE IF new_position_value > limit.max_position_value * DecimalScale
            THEN [ok |-> FALSE, by |-> "check_order"]
       ELSE [ok |-> TRUE, by |-> ""]

\* RiskManager.check_order; side is "buy" or "sell", px = NoPrice for a market order
CheckOrder(side, quantity, px, L, market_price) ==
    LET order_value == quantity * (IF px = NoPrice \/ px = 0 THEN market_price ELSE px)
        deviation == DecDiv(Abs(px - market_price) * DecimalScale, market_price)
        new_position_value ==
            IF side = "buy"
            THEN PositionValue(L.quantity, L.avg_price) + order_value * DecimalScale
            ELSE PositionValue(L.quantity, L.avg_price) - order_value * DecimalScale
    IN IF order_value > limit.max_order_value THEN [ok |-> FALSE, by |-> "check_order"]
       ELSE IF order_value < limit.min_order_value THEN [ok |-> FALSE, by |-> "check_order"]
       ELSE IF px # NoPrice /\ px # 0 /\ deviation > limit.price_deviation
            THEN [ok |-> FALSE, by |-> "check_order"]
       ELSE IF new_position_value > limit.max_position_value * DecimalScale
            THEN [ok |-> FALSE, by |-> "check_order"]
       ELSE [ok |-> TRUE, by |-> ""]

\* RiskManager.check_position on Position(quantity, avg_price, leverage); margin defaults to 0
CheckPosition(quantity, avg_price, leverage) ==
    IF leverage > limit.max_leverage THEN FALSE
    ELSE IF MarginRatio(0, quantity, avg_price) < limit.min_margin_ratio THEN FALSE
    ELSE IF PositionValue(quantity, avg_price) > limit.max_position_value * DecimalScale THEN FALSE
    ELSE TRUE

\* variant of UpdatePnl that never resets the daily total
UpdatePnlNoReset(L, pnl, now) == [L EXCEPT !.daily_pnl = L.daily_pnl + pnl]

\* RiskManager.reset_daily_pnl followed by the accumulation of update_pnl
UpdatePnl(L, pnl, now) ==
    LET reset == now > L.last_pnl_reset
        base == IF reset THEN 0 ELSE L.daily_pnl
    IN [L EXCEPT !.daily_pnl = base + pnl,
                 !.last_pnl_reset = IF reset THEN now ELSE L.last_pnl_reset]

\* result of update_pnl: FALSE once the daily loss exceeds max_daily_loss
UpdatePnlOk(L) == ~(L.daily_pnl < -(limit.max_daily_loss * DecimalScale))

\* --------------------------------------------------- strategy.py ledger
\* Order(symbol=, side=, quantity=, price=): the dataclass of core/order.py has a
\* required order_type, so the call of BaseStrategy._validate_trade_params raises
\* TypeError; the override in strategies/deepseek_strategy.py passes order_type.
OrderInit(cls) == cls = "override"

\* BaseStrategy._validate_trade_params
ValidateTradeParams(L, quantity, px, market_price) ==
    IF quantity <= 0 THEN [ok |-> FALSE, by |-> "params"]
    ELSE IF px # NoPrice /\ px <= 0 THEN [ok |-> FALSE, by |-> "params"]
    ELSE IF ~OrderInit(validator) THEN [ok |-> FALSE, by |-> "order_init"]
    ELSE CheckOrder(IF quantity > 0 THEN "buy" ELSE "sell", Abs(quantity), px, L, market_price)

\* BaseStrategy._record_trade
RecordTrade(L, side, p, quantity, commission, realized_pnl) ==
    [L EXCEPT !.trades = Append(L.trades,
        [side |-> side, price |-> p, quantity |-> quantity,
         commission |-> commission, realized_pnl |-> realized_pnl])]

\* variant of NewAvgPrice that keeps the old average when the position closes
NewAvgPriceKeepsFlat(old_avg_price, old_position, p, delta) ==
    IF old_position + delta # 0
    THEN DecDiv(old_avg_price * old_position + p * DecimalScale * delta, old_position + delta)
    ELSE old_avg_price

\* the average price buy / sell give the new Position; delta is +quantity for a
\* buy and -quantity for a sell
NewAvgPrice(old_avg_price, old_position, p, delta) ==
    IF old_position + delta # 0
    THEN DecDiv(old_avg_price * old_position + p * DecimalScale * delta, old_position + delta)
    ELSE 0

\* variant of Rollback that leaves the new Position in place
RollbackSkipped(L, old_position, old_avg_price) == L

\* buy / sell after check_position refused: the Position is rebuilt from the old
\* quantity and average price; the totals already updated are left as they are
Rollback(L, old_position, old_avg_price) ==
    [L EXCEPT !.quantity = old_position, !.avg_price = old_avg_price]

\* variant of RealizedPnl that takes the whole fill as the closing quantity
RealizedPnlWholeFill(side, L, p, quantity) ==
    IF side = "buy"
    THEN IF L.quantity < 0 THEN (L.avg_price - p * DecimalScale) * quantity ELSE 0
    ELSE IF L.quantity > 0 THEN (p * DecimalScale - L.avg_price) * quantity ELSE 0

\* the realized PnL buy (against a short) and sell (against a long) compute
RealizedPnl(side, L, p, quantity) ==
    IF side = "buy"
    THEN IF L.quantity < 0
         THEN (L.avg_price - p * DecimalScale) * Min(Abs(L.quantity), quantity)
         ELSE 0
    ELSE IF L.quantity > 0
         THEN (p * DecimalScale - L.avg_price) * Min(L.quantity, quantity)
         ELSE 0

\* BaseStrategy.buy: the ledger after the call and how the call ended
Buy(L, quantity, px, market_price, now) ==
    LET v == ValidateTradeParams(L, quantity, px, market_price)
        p == IF px = NoPrice THEN market_price ELSE px
        commission == Abs(p * quantity * rate)
        realized_pnl == RealizedPnl("buy", L, p, quantity)
        old_position == L.quantity
        old_avg_price == L.avg_price
        new_avg_price == NewAvgPrice(old_avg_price, old_position, p, quantity)
        L1 == [L EXCEPT !.total_commission = @ + commission,
                        !.total_pnl = @ + realized_pnl]
        L2 == [L1 EXCEPT !.quantity = old_position + quantity,
                         !.avg_price = new_avg_price]
    IN IF ~v.ok THEN [led |-> L, out |-> "refused", by |-> v.by]
       ELSE IF ~CheckPosition(L2.quantity, L2.avg_price, L.leverage)
            THEN [led |-> Rollback(L2, old_position, old_avg_price),
                  out |-> "refused", by |-> "check_position"]
       ELSE [led |-> RecordTrade(UpdatePnl(L2, realized_pnl, now),
                                 "BUY", p, quantity, commission, realized_pnl),
             out |-> "ok", by |-> ""]

\* BaseStrategy.sell
Sell(L, quantity, px, market_price, now) ==
    LET v == ValidateTradeParams(L, quantity, px, market_price)
        p == IF px = NoPrice THEN market_price ELSE px
        commission == Abs(p * quantity * rate)
        realized_pnl == RealizedPnl("sell", L, p, quantity)
        old_position == L.quantity
        old_avg_price == L.avg_price
        new_avg_price == NewAvgPrice(old_avg_price, old_position, p, -quantity)
        L1 == [L EXCEPT !.total_commission = @ + commission,
                        !.total_pnl = @ + realized_pnl]
        L2 == [L1 EXCEPT !.quantity = old_position - quantity,
                         !.avg_price = new_avg_price]
    IN IF ~v.ok THEN [led |-> L, out |-> "refused", by |-> v.by]
       ELSE IF ~CheckPosition(L2.quantity, L2.avg_price, L.leverage)
            THEN [led |-> Rollback(L2, old_position, old_avg_price),
                  out |-> "refused", by |-> "check_position"]
       ELSE [led |-> RecordTrade(UpdatePnl(L2, realized_pnl, now),
                                 "SELL", p, quantity, commission, realized_pnl),
             out |-> "ok", by |-> ""]

\* what update_pnl returned inside a buy / sell with result r; it is called only
\* when the trade went through
PnlOk(r) == r.out # "ok" \/ UpdatePnlOk(r.led)

\* ------------------------------------------------------------ construction
States == {"Stopped", "Running", "Paused", "Error"}

TaskIds == 1 .. MaxTasks

\* RiskLimit values the strategy is constructed with (app.py builds one RiskLimit;
\* amounts are scaled down to the model's price and quantity range)
LimitConfigs ==
    {[max_position_value |-> 4, max_leverage |-> 3, min_margin_ratio |-> m,
      max_daily_loss |-> 1, max_order_value |-> 3, min_order_value |-> 2,
      price_deviation |-> DecimalScale \div 2,
      total_capital |-> 10, max_capital_usage |-> DecimalScale, reserve_capital |-> 2]
     : m \in {0, DecimalScale \div 10}}

\* RiskLimit values with a wider band of order values, for strategies
\* constructed directly
WideLimitConfigs ==
    {[l EXCEPT !.min_order_value = 1, !.max_order_value = 4] :
        l \in {c \in LimitConfigs : c.min_margin_ratio = 0}}

\* rows _load_state can find in the state store: no row, or a saved position
SavedPositions ==
    {[quantity |-> 0, avg_price |-> 0],
     [quantity |-> 1, avg_price |-> DecimalScale],
     [quantity |-> -1, avg_price |-> 2 * DecimalScale],
     [quantity |-> -2, avg_price |-> DecimalScale]}

\* BaseStrategy.__init__ followed by _initialize_state: the ledger part
NewLedger(saved, now) ==
    [quantity |-> saved.quantity, avg_price |-> saved.avg_price, leverage |-> 1,
     total_pnl |-> 0, total_commission |-> 0,
     daily_pnl |-> 0, last_pnl_reset |-> now, used_capital |-> 0,
     trade_quantity |-> 1, trades |-> <<>>]

\* what a caller sees of the strategy when it invokes a lifecycle call
Snapshot == [fsm |-> fsm, running |-> running]

NoCall == [op |-> "none", pre |-> [fsm |-> "Stopped", running |-> FALSE],
           out |-> "ok", err |-> "", fault |-> "none", fx |-> <<>>]

NoTrade == [side |-> "none", quantity |-> 0, px |-> NoPrice, out |-> "ok", by |-> "",
            pnl_ok |-> TRUE, pre |-> <<>>]

\* ConnectionManager.__init__, and a clock at zero
InitFan ==
    /\ fanConns = {}
    /\ fanQueue = <<>>
    /\ fanPc = "wait"
    /\ fanDelivered = [w \in 1 .. MaxSubs |-> <<>>]
    /\ fanLastBatch = <<>>
    /\ fanTaken = 0
    /\ fanPubTimes = <<>>
    /\ fanClock = 0
    /\ fanStable = TRUE
    /\ fanSends = [broken |-> {}, errored |-> {}, gather |-> {},
                   stray |-> [w \in 1 .. MaxSubs |-> 0], queue |-> FALSE, workers |-> 0,
                   quiet |-> FALSE]

\* OKXWebSocketManager.__init__ and WebSocketClient.__init__
InitWs(creds) ==
    /\ ws = [link |-> "none", connected |-> FALSE, should |-> TRUE, logged |-> FALSE,
             tasks |-> FALSE, table |-> {}, server |-> {}, sentN |-> 0,
             pc |-> "idle", retry |-> "idle", tries |-> 0, attempts |-> 0,
             raised |-> FALSE, authFailed |-> FALSE, afterAuth |-> 0,
             resent |-> {}, before |-> {}, loss |-> 0, closed |-> FALSE, recovered |-> FALSE]
    /\ wsCreds \in creds
    /\ wsInbox = <<>>
    /\ wsDispatched = <<>>
    /\ wsSeen = <<>>
    /\ wsCache = 0
    /\ wsOp = [who |-> "none", op |-> "none", key |-> <<>>]
    /\ nWsOps = 0
    /\ bc = [connected |-> FALSE, subs |-> {}, sentN |-> 0, before |-> {}, resent |-> {},
             closedOnce |-> FALSE, cycled |-> FALSE]

\* get_default_analysis / DeepseekStrategy._get_default_analysis: the analysis
\* both classes start with and fall back to
DefaultAnalysis == "default"

\* the scaled analysis interval (30 seconds in both classes)
AnalysisInterval == 2

\* DeepseekStrategy.__init__ (class "legacy") or strategies/deepseek with its
\* MarketAnalyzer (class "analyzer"); good is the recommendation of the most
\* recent call that succeeded
InitAdv(classes) ==
    /\ adv \in {[class |-> k, cache |-> DefaultAnalysis, last_time |-> -AnalysisInterval,
                  good |-> DefaultAnalysis] : k \in classes}
    /\ advLast = [outcome |-> "none", reply |-> "none", ret |-> DefaultAnalysis,
                  asked |-> FALSE, failed |-> FALSE]
    /\ advClock = 0
    /\ nAdvCalls = 0

\* OKXWebSocketClient.__init__: empty buffers; no candlestick row, no Redis entry
InitCaches ==
    /\ okxTrades = <<>>
    /\ okxCandles = [i \in {"1m", "5m"} |-> <<>>]
    /\ okxLast = [kind |-> "none", interval |-> "none", entries |-> <<>>, full |-> FALSE,
                  fresh |-> FALSE]
    /\ nOkxOps = 0
    /\ klineDb = [t \in 1 .. MaxKlineTs |-> 0]
    /\ klineCache = <<>>
    /\ klineLast = [op |-> "none", kline |-> <<>>, cached |-> FALSE, before |-> <<>>]
    /\ nKlineOps = 0

\* OKXWebSocketClient.__init__ and MarketDataManager.__init__: no book yet;
\* OKXWebSocketManager.__init__ without an API key: no socket, no task
InitBook ==
    /\ book = <<>>
    /\ mdBook = <<>>
    /\ bookLast = <<>>
    /\ nBookUpdates = 0
    /\ lp = [link |-> "none", connected |-> FALSE, should |-> TRUE, ref |-> {},
             orphans |-> [k \in {"ping", "recv", "proc"} |-> 0], handler |-> "idle",
             retry |-> "idle", tries |-> 0, closed |-> FALSE, n |-> 0,
             last |-> [op |-> "none", silent |-> FALSE, declared |-> FALSE]]
    /\ InitCaches

\* the API's broadcast manager and the exchange clients as constructed
InitGateway == InitFan /\ InitWs({FALSE}) /\ InitAdv({"legacy"}) /\ InitBook

\* BaseStrategy.__init__ followed by _initialize_state: always leaves Stopped
InitLife ==
    /\ fsm = "Stopped"
    /\ running = FALSE
    /\ taskRef = 0
    /\ taskPc = [t \in TaskIds |-> "free"]
    /\ taskCancel = [t \in TaskIds |-> FALSE]
    /\ taskPrice = [t \in TaskIds |-> 0]
    /\ store = [status |-> "Stopped", last_error |-> "none"]
    /\ callPc = [c \in {1, 2} |-> "idle"]
    /\ callPre = [c \in {1, 2} |-> NoCall.pre]
    /\ last = NoCall
    /\ fence = "none"

\* the strategy is constructed from one of the classes, with one of the rates
\* and limits, over one of the saved rows
InitLedger(classes, limits, rates, rows) ==
    /\ validator \in classes
    /\ limit \in limits
    /\ rate \in rates
    /\ price \in 1 .. MaxPrice
    /\ today = 0
    /\ \E saved \in rows :
          /\ ledger = NewLedger(saved, 0)
          /\ initQty = saved.quantity
    /\ lastTrade = NoTrade
    /\ openMark = [n |-> -2, pnl |-> 0]
    /\ nOrders = 0

\* a strategy constructed over any saved row, as the trade calls see it
Init ==
    /\ InitLife
    /\ InitLedger({"base", "override"}, LimitConfigs \cup WideLimitConfigs, {0, 1},
                  SavedPositions)
    /\ InitGateway

\* a strategy constructed over an empty state store, as app.py starts it
InitRun ==
    /\ InitLife
    /\ InitLedger({"base", "override"}, LimitConfigs, {1}, {[quantity |-> 0, avg_price |-> 0]})
    /\ InitGateway

\* the same, for the class app.py constructs (strategies/deepseek/strategy.py)
InitConc ==
    /\ InitLife
    /\ InitLedger({"base"}, {l \in LimitConfigs : l.min_margin_ratio = 0}, {1},
                  {[quantity |-> 0, avg_price |-> 0]})
    /\ InitGateway

\* ------------------------------------------------------------ environment
\* the exchange reports a new last price
MarketMove ==
    /\ \E p \in 1 .. MaxPrice : p # price /\ price' = p
    /\ UNCHANGED <<today>>
    /\ UNCHANGED lifeVars
    /\ UNCHANGED ledgerVars
    /\ UNCHANGED cfgVars
    /\ UNCHANGED fanVars
    /\ UNCHANGED wsVars
    /\ UNCHANGED sideVars

\* the calendar day of datetime.now() advances
NewDay ==
    /\ today < MaxDay
    /\ today' = today + 1
    /\ UNCHANGED <<price>>
    /\ UNCHANGED lifeVars
    /\ UNCHANGED ledgerVars
    /\ UNCHANGED cfgVars
    /\ UNCHANGED fanVars
    /\ UNCHANGED wsVars
    /\ UNCHANGED sideVars

\* ------------------------------------------------------------ trade calls
\* openMark after a call that took the ledger from L to M
MarkAfter(mark, L, M) ==
    IF L.quantity = 0 /\ M.quantity # 0
    THEN [n |-> Len(L.trades), pnl |-> L.total_pnl]
    ELSE mark

\* a caller invokes strategy.buy(quantity, price); n bounds the number of calls
BuyOrder(n) ==
    /\ nOrders < n
    /\ \E q \in 0 .. MaxQty, px \in {NoPrice} \cup (0 .. MaxPrice) :
          LET r == Buy(ledger, q, px, price, today) IN
          /\ ledger' = r.led
          /\ lastTrade' = [side |-> "buy", quantity |-> q, px |-> px,
                           out |-> r.out, by |-> r.by,
                           pnl_ok |-> PnlOk(r), pre |-> ledger]
          /\ openMark' = MarkAfter(openMark, ledger, r.led)
    /\ nOrders' = nOrders + 1
    /\ UNCHANGED <<initQty>>
    /\ UNCHANGED lifeVars
    /\ UNCHANGED envVars
    /\ UNCHANGED cfgVars
    /\ UNCHANGED fanVars
    /\ UNCHANGED wsVars
    /\ UNCHANGED sideVars

BuyCall == BuyOrder(MaxOrders)

\* a caller invokes strategy.sell(quantity, price); n bounds the number of calls
SellOrder(n) ==
    /\ nOrders < n
    /\ \E q \in 0 .. MaxQty, px \in {NoPrice} \cup (0 .. MaxPrice) :
          LET r == Sell(ledger, q, px, price, today) IN
          /\ ledger' = r.led
          /\ lastTrade' = [side |-> "sell", quantity |-> q, px |-> px,
                           out |-> r.out, by |-> r.by,
                           pnl_ok |-> PnlOk(r), pre |-> ledger]
          /\ openMark' = MarkAfter(openMark, ledger, r.led)
    /\ nOrders' = nOrders + 1
    /\ UNCHANGED <<initQty>>
    /\ UNCHANGED lifeVars
    /\ UNCHANGED envVars
    /\ UNCHANGED cfgVars
    /\ UNCHANGED fanVars
    /\ UNCHANGED wsVars
    /\ UNCHANGED sideVars

SellCall == SellOrder(MaxOrders)

NextLedger == BuyCall \/ SellCall \/ MarketMove \/ NewDay

SpecLedger == Init /\ [][NextLedger]_vars

\* ------------------------------------------------------------ sequences of fills
\* a strategy of the class that constructs its orders, without commission, over
\* an empty state store, under the limits with the wide band of order values
InitFills ==
    /\ InitLife
    /\ InitLedger({"override"}, WideLimitConfigs, {0}, {[quantity |-> 0, avg_price |-> 0]})
    /\ InitGateway

BuyFill == BuyOrder(MaxFills)

SellFill == SellOrder(MaxFills)

NextFills == BuyFill \/ SellFill \/ MarketMove

SpecFills == InitFills /\ [][NextFills]_vars

\* ------------------------------------------------------------ lifecycle
Faults == {"none", "commit", "fetch"}

\* BaseStrategy.is_running
IsRunning == running /\ fsm = "Running"

\* variant of Cancel that requests no cancellation
CancelNothing(tc, ref) == tc

\* self._task.cancel() when self._task is set; cancelling a finished task does nothing
Cancel(tc, ref) ==
    IF ref # 0 /\ taskPc[ref] # "free" THEN [tc EXCEPT ![ref] = TRUE] ELSE tc

CancelFx(ref) == IF ref # 0 THEN <<"cancel">> ELSE <<>>

\* StrategyStateBase._save_status.  fault "commit": db_session.commit() raises;
\* fault "fetch": the commit succeeds and client.get_market_price raises before
\* the event is published.  Either way the exception is re-raised.
SaveStatus(st, run, status, error, fault) ==
    IF fault = "commit"
    THEN [store |-> st, running |-> run, fx |-> <<>>, ok |-> FALSE]
    ELSE IF fault = "fetch"
    THEN [store |-> [status |-> status, last_error |-> error],
          running |-> (status = "Running"), fx |-> <<"persist">>, ok |-> FALSE]
    ELSE [store |-> [status |-> status, last_error |-> error],
          running |-> (status = "Running"), fx |-> <<"persist", "publish">>, ok |-> TRUE]

\* a free slot for the task asyncio.create_task(self.run()) creates
FreshTask == CHOOSE t \in TaskIds : taskPc[t] = "free"

\* the record of a completed lifecycle call
Done(op, pre, out, err, fault, fx) ==
    [op |-> op, pre |-> pre, out |-> out, err |-> err, fault |-> fault, fx |-> fx]

\* variant of StartCall whose except branch also forces the Stopped state, as
\* the except branch of stop() does
StartCallForcesStopped(c) ==
    /\ callPc[c] = "idle"
    /\ IF IsRunning
       THEN /\ running' = FALSE
            /\ taskCancel' = Cancel(taskCancel, taskRef)
            /\ taskRef' = 0
            /\ fsm' = "Stopped"
            /\ last' = Done("start", Snapshot, "raised", "already_running", "none",
                            CancelFx(taskRef))
            /\ UNCHANGED <<callPc, callPre, fence>>
       ELSE /\ taskCancel' = Cancel(taskCancel, taskRef)
            /\ taskRef' = 0
            /\ callPc' = [callPc EXCEPT ![c] = "on_start"]
            /\ callPre' = [callPre EXCEPT ![c] = Snapshot]
            /\ fence' = "none"
            /\ UNCHANGED <<fsm, running, last>>
    /\ UNCHANGED <<taskPc, taskPrice, store>>
    /\ UNCHANGED ledgerVars
    /\ UNCHANGED envVars
    /\ UNCHANGED cfgVars
    /\ UNCHANGED fanVars
    /\ UNCHANGED wsVars
    /\ UNCHANGED sideVars

\* BaseStrategy.start up to "await self._on_start()"
StartCall(c) ==
    /\ callPc[c] = "idle"
    /\ IF IsRunning
       THEN /\ running' = FALSE
            /\ taskCancel' = Cancel(taskCancel, taskRef)
            /\ taskRef' = 0
            /\ last' = Done("start", Snapshot, "raised", "already_running", "none",
                            CancelFx(taskRef))
            /\ UNCHANGED <<callPc, callPre, fence>>
       ELSE /\ taskCancel' = Cancel(taskCancel, taskRef)
            /\ taskRef' = 0
            /\ callPc' = [callPc EXCEPT ![c] = "on_start"]
            /\ callPre' = [callPre EXCEPT ![c] = Snapshot]
            /\ fence' = "none"
            /\ UNCHANGED <<running, last>>
    /\ UNCHANGED <<fsm, taskPc, taskPrice, store>>
    /\ UNCHANGED ledgerVars
    /\ UNCHANGED envVars
    /\ UNCHANGED cfgVars
    /\ UNCHANGED fanVars
    /\ UNCHANGED wsVars
    /\ UNCHANGED sideVars

\* BaseStrategy.start from create_task to the end, with its except branch
StartResume(c, F) ==
    /\ callPc[c] = "on_start"
    /\ \E t \in TaskIds : taskPc[t] = "free"
    /\ \E fault \in F :
         LET t == FreshTask
             sv == SaveStatus(store, TRUE, "Running", "none", fault)
         IN /\ taskPc' = [taskPc EXCEPT ![t] = "new"]
            /\ IF fsm = "Running"
               THEN /\ fault = "none"
                    /\ running' = FALSE
                    /\ taskCancel' = [taskCancel EXCEPT ![t] = TRUE]
                    /\ taskRef' = 0
                    /\ last' = Done("start", callPre[c], "raised", "already_running", fault,
                                    <<"spawn", "cancel">>)
                    /\ UNCHANGED <<fsm, store>>
               ELSE IF sv.ok
               THEN /\ running' = TRUE
                    /\ taskCancel' = [taskCancel EXCEPT ![t] = FALSE]
                    /\ taskRef' = t
                    /\ store' = sv.store
                    /\ fsm' = "Running"
                    /\ last' = Done("start", callPre[c], "ok", "", fault, <<"spawn">> \o sv.fx)
               ELSE /\ running' = FALSE
                    /\ taskCancel' = [taskCancel EXCEPT ![t] = TRUE]
                    /\ taskRef' = 0
                    /\ store' = sv.store
                    /\ last' = Done("start", callPre[c], "raised", "store", fault,
                                    <<"spawn">> \o sv.fx \o <<"cancel">>)
                    /\ UNCHANGED <<fsm>>
    /\ callPc' = [callPc EXCEPT ![c] = "idle"]
    /\ callPre' = [callPre EXCEPT ![c] = NoCall.pre]
    /\ UNCHANGED <<taskPrice, fence>>
    /\ UNCHANGED ledgerVars
    /\ UNCHANGED envVars
    /\ UNCHANGED cfgVars
    /\ UNCHANGED fanVars
    /\ UNCHANGED wsVars
    /\ UNCHANGED sideVars

\* the except branch of BaseStrategy.stop
StopFails(c, pre, err, fault, fx0) ==
    LET sv == SaveStatus(store, FALSE, "Stopped", "none", fault) IN
    /\ running' = sv.running
    /\ taskCancel' = Cancel(taskCancel, taskRef)
    /\ taskRef' = 0
    /\ fsm' = "Stopped"
    /\ store' = sv.store
    /\ last' = Done("stop", pre, "raised", IF sv.ok THEN err ELSE "store", fault,
                    fx0 \o CancelFx(taskRef) \o sv.fx)
    /\ fence' = "stop"
    /\ callPc' = [callPc EXCEPT ![c] = "idle"]

\* BaseStrategy.stop up to "await self._on_stop()"
StopCall(c, F) ==
    /\ callPc[c] = "idle"
    /\ IF ~IsRunning
       THEN /\ \E fault \in F : StopFails(c, Snapshot, "not_running", fault, <<>>)
            /\ UNCHANGED <<callPre>>
       ELSE /\ callPc' = [callPc EXCEPT ![c] = "on_stop"]
            /\ callPre' = [callPre EXCEPT ![c] = Snapshot]
            /\ UNCHANGED <<fsm, running, taskRef, taskCancel, store, last, fence>>
    /\ UNCHANGED <<taskPc, taskPrice>>
    /\ UNCHANGED ledgerVars
    /\ UNCHANGED envVars
    /\ UNCHANGED cfgVars
    /\ UNCHANGED fanVars
    /\ UNCHANGED wsVars
    /\ UNCHANGED sideVars

\* BaseStrategy.stop after _on_stop: the state object's stop(), the cancel, the
\* second broadcast, and the except branch
StopResume(c, F) ==
    /\ callPc[c] = "on_stop"
    /\ \E fault \in F :
         LET sv == SaveStatus(store, FALSE, "Stopped", "none", fault) IN
         IF fsm = "Stopped"
         THEN StopFails(c, callPre[c], "already_stopped", fault, <<>>)
         ELSE IF sv.ok
         THEN /\ running' = FALSE
              /\ store' = sv.store
              /\ fsm' = "Stopped"
              /\ taskCancel' = Cancel(taskCancel, taskRef)
              /\ taskRef' = 0
              /\ last' = Done("stop", callPre[c], "ok", "", fault,
                              sv.fx \o CancelFx(taskRef) \o <<"publish">>)
              /\ fence' = "stop"
              /\ callPc' = [callPc EXCEPT ![c] = "idle"]
         ELSE StopFails(c, callPre[c], "store", fault, sv.fx)
    /\ callPre' = [callPre EXCEPT ![c] = NoCall.pre]
    /\ UNCHANGED <<taskPc, taskPrice>>
    /\ UNCHANGED ledgerVars
    /\ UNCHANGED envVars
    /\ UNCHANGED cfgVars
    /\ UNCHANGED fanVars
    /\ UNCHANGED wsVars
    /\ UNCHANGED sideVars

\* BaseStrategy.pause: the guard on is_running, then the state object's pause(),
\* which only RunningState accepts
PauseCall(c, F) ==
    /\ callPc[c] = "idle"
    /\ \E fault \in F :
         LET sv == SaveStatus(store, running, "Paused", "none", fault) IN
         IF ~IsRunning \/ fsm # "Running"
         THEN /\ fault = "none"
              /\ last' = Done("pause", Snapshot, "raised", "cannot_pause", fault, <<>>)
              /\ UNCHANGED <<fsm, running, store, fence>>
         ELSE /\ store' = sv.store
              /\ running' = sv.running
              /\ fsm' = IF sv.ok THEN "Paused" ELSE fsm
              /\ fence' = IF sv.ok THEN "pause" ELSE fence
              /\ last' = Done("pause", Snapshot, IF sv.ok THEN "ok" ELSE "raised",
                              IF sv.ok THEN "" ELSE "store", fault, sv.fx)
    /\ UNCHANGED <<taskRef, taskPc, taskCancel, taskPrice, callPc, callPre>>
    /\ UNCHANGED ledgerVars
    /\ UNCHANGED envVars
    /\ UNCHANGED cfgVars
    /\ UNCHANGED fanVars
    /\ UNCHANGED wsVars
    /\ UNCHANGED sideVars

\* variant of HandleError that saves the status without installing ErrorState
HandleErrorKeepsState(fault) ==
    LET sv == SaveStatus(store, FALSE, "Error", "err", fault)
        sv2 == SaveStatus(sv.store, FALSE, "Stopped", "none", fault)
    IN [taskCancel |-> Cancel(taskCancel, taskRef),
        fsm |-> IF sv.ok THEN fsm ELSE "Stopped",
        store |-> IF sv.ok THEN sv.store ELSE sv2.store,
        ok |-> sv.ok,
        fx |-> CancelFx(taskRef) \o sv.fx \o (IF sv.ok THEN <<>> ELSE sv2.fx)]

\* BaseStrategy.handle_error: what it leaves behind, and whether it returned
\* (ok) or raised from its own except branch
HandleError(fault) ==
    LET sv == SaveStatus(store, FALSE, "Error", "err", fault)
        sv2 == SaveStatus(sv.store, FALSE, "Stopped", "none", fault)
    IN [taskCancel |-> Cancel(taskCancel, taskRef),
        fsm |-> IF sv.ok THEN "Error" ELSE "Stopped",
        store |-> IF sv.ok THEN sv.store ELSE sv2.store,
        ok |-> sv.ok,
        fx |-> CancelFx(taskRef) \o sv.fx \o (IF sv.ok THEN <<>> ELSE sv2.fx)]

\* ------------------------------------------------------------ polling task
Decisions == {"wait", "unsure", "watch", "buy", "sell"}

\* what on_tick's buy or sell call, with result r, leaves for the trade records
TradeRec(side, quantity, L, r) ==
    [led |-> r.led, ok |-> r.out = "ok",
     rec |-> [side |-> side, quantity |-> quantity, px |-> NoPrice,
              out |-> r.out, by |-> r.by, pnl_ok |-> PnlOk(r), pre |-> L]]

\* one buy or sell made by on_tick at the market price, with its record
TradeStep(side, L, quantity, market_price, now) ==
    TradeRec(side, quantity, L,
             IF side = "buy" THEN Buy(L, quantity, NoPrice, market_price, now)
             ELSE Sell(L, quantity, NoPrice, market_price, now))

\* BaseStrategy.update_position_value
UpdatePositionValue(L) ==
    [L EXCEPT !.used_capital = PositionValue(L.quantity, L.avg_price)]

\* the trade of trade_quantity, with result s, made after the calls of trace t1:
\* a ValueError ends the block before update_position_value
TradeTail(s, t1) ==
    IF ~s.ok THEN [led |-> s.led, trace |-> t1 \o <<s.rec>>]
    ELSE [led |-> UpdatePositionValue(s.led), trace |-> t1 \o <<s.rec>>]

\* after the closing trade, with result s1: its ValueError ends the block,
\* otherwise trade_quantity is traded
TradeAfterClose(side, s1, market_price, now) ==
    IF ~s1.ok THEN [led |-> s1.led, trace |-> <<s1.rec>>]
    ELSE TradeTail(TradeStep(side, s1.led, s1.led.trade_quantity, market_price, now),
                   <<s1.rec>>)

\* close the open quantity first when there is one, then trade trade_quantity
TradePair(side, L, market_price, now) ==
    IF L.quantity # 0
    THEN TradeAfterClose(side, TradeStep(side, L, Abs(L.quantity), market_price, now),
                         market_price, now)
    ELSE TradeTail(TradeStep(side, L, L.trade_quantity, market_price, now), <<>>)

\* DeepseekStrategy.on_tick after "await self.analyzer.analyze_market(...)".
\* decision: "wait" = min_interval not elapsed; "unsure" = confidence <= 0.8;
\* "watch" / "buy" / "sell" = the recommendation, with confidence > 0.8.
\* current_price is the price run() fetched before the tick was suspended.
OnTick(L, decision, current_price, market_price, now) ==
    LET trade_value == L.trade_quantity * current_price
        LA == IF trade_value > limit.max_order_value
              THEN [L EXCEPT !.trade_quantity = DecDiv(limit.max_order_value, current_price)]
              ELSE L
        remaining_capital == MaxAvailableCapital - L.used_capital
    IN IF decision = "wait" THEN [led |-> L, trace |-> <<>>]
       ELSE IF decision = "unsure" THEN [led |-> LA, trace |-> <<>>]
       ELSE IF decision = "buy" /\ LA.quantity <= 0
            THEN IF trade_value * DecimalScale > remaining_capital
                 THEN [led |-> LA, trace |-> <<>>]
                 ELSE TradePair("buy", LA, market_price, now)
       ELSE IF decision = "sell" /\ LA.quantity >= 0
            THEN TradePair("sell", LA, market_price, now)
       ELSE [led |-> UpdatePositionValue(LA), trace |-> <<>>]

RECURSIVE MarkTrace(_, _)
\* openMark after the calls of a trace
MarkTrace(mark, trace) ==
    IF trace = <<>> THEN mark
    ELSE MarkTrace(IF trace[1].pre.quantity = 0 /\ trace[1].out = "ok"
                   THEN [n |-> Len(trace[1].pre.trades), pnl |-> trace[1].pre.total_pnl]
                   ELSE mark,
                   Tail(trace))

\* the task leaves run(): the finally block saves the ledger snapshot and the
\* task is done
TaskEnds(t) ==
    /\ taskPc' = [taskPc EXCEPT ![t] = "free"]
    /\ taskCancel' = [taskCancel EXCEPT ![t] = FALSE]
    /\ taskPrice' = [taskPrice EXCEPT ![t] = 0]

\* run() at "while self.is_running": either the loop is left, or the price is
\* fetched and on_tick runs up to the await of the analysis
EnterLoop(t) ==
    IF IsRunning
    THEN /\ taskPc' = [taskPc EXCEPT ![t] = "tick"]
         /\ taskPrice' = [taskPrice EXCEPT ![t] = price]
         /\ UNCHANGED <<taskCancel>>
    ELSE TaskEnds(t)

\* first step of the task created by start(); a task cancelled before its first
\* step never runs any of run()
TaskStart(t) ==
    /\ taskPc[t] = "new"
    /\ IF taskCancel[t] THEN TaskEnds(t) ELSE EnterLoop(t)
    /\ UNCHANGED <<fsm, running, taskRef, store, callPc, callPre, last, fence>>
    /\ UNCHANGED ledgerVars
    /\ UNCHANGED envVars
    /\ UNCHANGED cfgVars
    /\ UNCHANGED fanVars
    /\ UNCHANGED wsVars
    /\ UNCHANGED sideVars

\* the task resumes inside on_tick: CancelledError when cancelled, otherwise the
\* rest of on_tick, then _save_state and the one second sleep
TaskTick(t) ==
    /\ taskPc[t] = "tick"
    /\ IF taskCancel[t]
       THEN /\ TaskEnds(t)
            /\ UNCHANGED ledgerVars
       ELSE /\ \E d \in Decisions :
                 /\ (d \in {"buy", "sell"} => nOrders < MaxOrders)
                 /\ \E r \in {OnTick(ledger, d, taskPrice[t], price, today)} :
                    /\ ledger' = r.led
                    /\ lastTrade' = IF r.trace = <<>> THEN lastTrade
                                    ELSE r.trace[Len(r.trace)]
                    /\ openMark' = MarkTrace(openMark, r.trace)
                    /\ nOrders' = nOrders + Len(r.trace)
            /\ taskPc' = [taskPc EXCEPT ![t] = "sleep"]
            /\ taskPrice' = [taskPrice EXCEPT ![t] = 0]
            /\ UNCHANGED <<taskCancel, initQty>>
    /\ UNCHANGED <<fsm, running, taskRef, store, callPc, callPre, last, fence>>
    /\ UNCHANGED envVars
    /\ UNCHANGED cfgVars
    /\ UNCHANGED fanVars
    /\ UNCHANGED wsVars
    /\ UNCHANGED sideVars

\* an exception inside on_tick (other than ValueError from buy / sell): on_tick
\* calls handle_error and returns; if handle_error itself raises, run() catches
\* it, calls handle_error again and the task ends
TaskTickError(t, F) ==
    /\ taskPc[t] = "tick"
    /\ ~taskCancel[t]
    /\ \E fault \in F :
         LET h == HandleError(fault) IN
         /\ running' = FALSE
         /\ taskRef' = 0
         /\ fsm' = h.fsm
         /\ store' = h.store
         /\ last' = Done("handle_error", Snapshot, IF h.ok THEN "ok" ELSE "raised",
                         IF h.ok THEN "" ELSE "store", fault, h.fx)
         /\ fence' = "error"
         /\ IF h.ok
            THEN /\ taskPc' = [taskPc EXCEPT ![t] = "sleep"]
                 /\ taskCancel' = h.taskCancel
                 /\ taskPrice' = [taskPrice EXCEPT ![t] = 0]
            ELSE /\ taskPc' = [taskPc EXCEPT ![t] = "free"]
                 /\ taskCancel' = [h.taskCancel EXCEPT ![t] = FALSE]
                 /\ taskPrice' = [taskPrice EXCEPT ![t] = 0]
    /\ UNCHANGED <<callPc, callPre>>
    /\ UNCHANGED ledgerVars
    /\ UNCHANGED envVars
    /\ UNCHANGED cfgVars
    /\ UNCHANGED fanVars
    /\ UNCHANGED wsVars
    /\ UNCHANGED sideVars

\* the task resumes from _save_state / asyncio.sleep(1)
TaskWake(t) ==
    /\ taskPc[t] = "sleep"
    /\ IF taskCancel[t] THEN TaskEnds(t) ELSE EnterLoop(t)
    /\ UNCHANGED <<fsm, running, taskRef, store, callPc, callPre, last, fence>>
    /\ UNCHANGED ledgerVars
    /\ UNCHANGED envVars
    /\ UNCHANGED cfgVars
    /\ UNCHANGED fanVars
    /\ UNCHANGED wsVars
    /\ UNCHANGED sideVars

\* an exception in the loop body outside on_tick (the price fetch or _save_state
\* raises): run() calls handle_error and the task ends
TaskLoopError(t, F) ==
    /\ taskPc[t] = "sleep"
    /\ ~taskCancel[t]
    /\ IsRunning
    /\ \E fault \in F :
         LET h == HandleError(fault) IN
         /\ running' = FALSE
         /\ taskRef' = 0
         /\ fsm' = h.fsm
         /\ store' = h.store
         /\ last' = Done("handle_error", Snapshot, IF h.ok THEN "ok" ELSE "raised",
                         IF h.ok THEN "" ELSE "store", fault, h.fx)
         /\ fence' = "error"
         /\ taskPc' = [taskPc EXCEPT ![t] = "free"]
         /\ taskCancel' = [h.taskCancel EXCEPT ![t] = FALSE]
    /\ UNCHANGED <<taskPrice, callPc, callPre>>
    /\ UNCHANGED ledgerVars
    /\ UNCHANGED envVars
    /\ UNCHANGED cfgVars
    /\ UNCHANGED fanVars
    /\ UNCHANGED wsVars
    /\ UNCHANGED sideVars

\* ------------------------------------------------------------ specifications
\* a step of one of the polling tasks; F is how a status save may fail
TaskStep(F) ==
    \E t \in TaskIds :
        TaskStart(t) \/ TaskTick(t) \/ TaskTickError(t, F) \/ TaskWake(t) \/ TaskLoopError(t, F)

\* a step of a lifecycle call of caller c
Lifecycle(c, F) ==
    StartCall(c) \/ StartResume(c, F) \/ StopCall(c, F) \/ StopResume(c, F) \/ PauseCall(c, F)

\* one caller at a time drives the lifecycle; the polling task runs beside it;
\* the state store and the price fetch may fail
Next == Lifecycle(1, Faults) \/ TaskStep(Faults) \/ MarketMove

Spec == InitRun /\ [][Next]_vars

\* two callers drive the lifecycle of the same strategy concurrently, at a
\* steady market price and with a state store that does not fail
NextConc == (\E c \in {1, 2} : Lifecycle(c, {"none"})) \/ TaskStep({"none"})

SpecConc == InitConc /\ [][NextConc]_vars

\* ------------------------------------------------------------ broadcast fan-out
\* length, in clock ticks, of ConnectionManager.batch_timeout
BatchWindow == 2

\* the websockets that may connect for the symbol
Subs == 1 .. MaxSubs

\* variant of FanBatch that ignores batch_size
FanBatchAll(queue) == queue

\* the batch _broadcast_worker collects: the first message, then what
\* get_nowait still finds, up to batch_size messages
FanBatch(queue) ==
    SubSeq(queue, 1, IF Len(queue) < BatchSize THEN Len(queue) ELSE BatchSize)

\* variant of FanRest that empties the queue
FanRestDropped(queue) == <<>>

\* what the queue holds once the batch has been taken from it
FanRest(queue) == SubSeq(queue, Len(FanBatch(queue)) + 1, Len(queue))

\* variant of FanLatest that picks the oldest message of the batch
FanOldest(batch) == batch[1]

\* latest_message of _process_broadcast_batch
FanLatest(batch) == batch[Len(batch)]

\* a worker is started whatever _broadcast_tasks holds
StartBroadcastWorkerAlways(s) == [s EXCEPT !.queue = TRUE, !.workers = @ + 1]

\* ConnectionManager.start_broadcast_worker: nothing happens while the symbol
\* has a worker that is not done
StartBroadcastWorker(s) ==
    IF s.workers = 0 THEN [s EXCEPT !.queue = TRUE, !.workers = 1] ELSE s

\* ConnectionManager.disconnect, last websocket of the symbol: the worker is
\* cancelled and forgotten, the queue deleted; the cancelled worker runs no
\* further statement of its loop
TearDown(s) ==
    [s EXCEPT !.gather = {}, !.queue = FALSE, !.workers = IF @ > 0 THEN @ - 1 ELSE 0]

\* ConnectionManager.connect: the websocket joins; the first one creates the
\* queue and starts the worker
FanConnect(w) ==
    /\ w \notin fanConns
    /\ fanConns' = fanConns \cup {w}
    /\ fanStable' = (fanStable /\ fanPubTimes = <<>>)
    /\ fanSends' = StartBroadcastWorker([fanSends EXCEPT !.broken = @ \ {w},
                                                         !.errored = @ \ {w},
                                                         !.quiet = FALSE])
    /\ UNCHANGED <<fanQueue, fanPc, fanDelivered, fanLastBatch, fanTaken, fanPubTimes, fanClock>>
    /\ UNCHANGED coreVars
    /\ UNCHANGED wsVars
    /\ UNCHANGED sideVars

\* ConnectionManager.disconnect: the websocket leaves; when it was the last one
\* the worker is cancelled and the queue deleted
FanDisconnect(w) ==
    /\ w \in fanConns
    /\ fanConns' = fanConns \ {w}
    /\ fanStable' = (fanStable /\ fanPubTimes = <<>>)
    /\ IF fanConns = {w}
       THEN /\ fanQueue' = <<>>
            /\ fanPc' = "wait"
            /\ fanSends' = TearDown([fanSends EXCEPT !.quiet = FALSE])
       ELSE /\ fanSends' = [fanSends EXCEPT !.quiet = FALSE]
            /\ UNCHANGED <<fanQueue, fanPc>>
    /\ UNCHANGED <<fanDelivered, fanLastBatch, fanTaken, fanPubTimes, fanClock>>
    /\ UNCHANGED coreVars
    /\ UNCHANGED wsVars
    /\ UNCHANGED sideVars

\* ConnectionManager.broadcast_to_symbol: the message, numbered by its order of
\* publication, is queued when the symbol has a queue and dropped otherwise
FanPublish ==
    /\ Len(fanPubTimes) < MaxMsgs
    /\ fanPubTimes' = Append(fanPubTimes, fanClock)
    /\ fanQueue' = IF fanSends.queue THEN Append(fanQueue, Len(fanPubTimes) + 1) ELSE fanQueue
    /\ fanSends' = [fanSends EXCEPT !.quiet = fanSends.queue]
    /\ UNCHANGED <<fanConns, fanPc, fanDelivered, fanLastBatch, fanTaken, fanClock, fanStable>>
    /\ UNCHANGED coreVars
    /\ UNCHANGED wsVars
    /\ UNCHANGED sideVars

\* _broadcast_worker resumes from queue.get(): it collects the batch and
\* _process_broadcast_batch creates one send_text task per listed websocket
FanTake ==
    /\ fanPc = "wait"
    /\ fanSends.workers > 0
    /\ fanConns # {}
    /\ fanQueue # <<>>
    /\ fanLastBatch' = FanBatch(fanQueue)
    /\ fanQueue' = FanRest(fanQueue)
    /\ fanDelivered' = [w \in Subs |->
          IF w \in fanConns THEN Append(fanDelivered[w], FanLatest(FanBatch(fanQueue)))
          ELSE fanDelivered[w]]
    /\ fanTaken' = fanTaken + 1
    /\ fanPc' = "send"
    /\ fanSends' = [fanSends EXCEPT !.gather = fanConns]
    /\ UNCHANGED <<fanConns, fanPubTimes, fanClock, fanStable>>
    /\ UNCHANGED coreVars
    /\ UNCHANGED wsVars
    /\ UNCHANGED sideVars

\* a websocket's peer goes away without the endpoint noticing: send_text on it
\* raises from now on
FanBreak(w) ==
    /\ w \in fanConns
    /\ w \notin fanSends.broken
    /\ fanSends' = [fanSends EXCEPT !.broken = @ \cup {w}, !.quiet = FALSE]
    /\ UNCHANGED <<fanConns, fanQueue, fanPc, fanDelivered, fanLastBatch, fanTaken, fanPubTimes,
                   fanClock, fanStable>>
    /\ UNCHANGED coreVars
    /\ UNCHANGED wsVars
    /\ UNCHANGED sideVars

\* a send_text task awaited by gather ends; when it raises, gather raises at
\* once, the other tasks of the batch go on unawaited, and the worker leaves
\* _process_broadcast_batch
FanSendDone(w) ==
    /\ w \in fanSends.gather
    /\ IF w \in fanSends.broken
       THEN /\ fanSends' = [fanSends EXCEPT
                   !.errored = @ \cup {w},
                   !.gather = {},
                   !.stray = [v \in Subs |->
                       IF v \in fanSends.gather \ {w} THEN @[v] + 1 ELSE @[v]]]
            /\ fanPc' = "wait"
       ELSE /\ fanSends' = [fanSends EXCEPT !.gather = @ \ {w}]
            /\ UNCHANGED fanPc
    /\ UNCHANGED <<fanConns, fanQueue, fanDelivered, fanLastBatch, fanTaken, fanPubTimes,
                   fanClock, fanStable>>
    /\ UNCHANGED coreVars
    /\ UNCHANGED wsVars
    /\ UNCHANGED sideVars

\* a send_text task that gather no longer awaits ends
FanStrayDone(w) ==
    /\ fanSends.stray[w] > 0
    /\ fanSends' = [fanSends EXCEPT
           !.stray[w] = @ - 1,
           !.errored = IF w \in fanSends.broken /\ w \in fanConns THEN @ \cup {w} ELSE @]
    /\ UNCHANGED <<fanConns, fanQueue, fanPc, fanDelivered, fanLastBatch, fanTaken, fanPubTimes,
                   fanClock, fanStable>>
    /\ UNCHANGED coreVars
    /\ UNCHANGED wsVars
    /\ UNCHANGED sideVars

\* the gather of the send tasks returns and the worker goes back to the queue
FanSent ==
    /\ fanPc = "send"
    /\ fanSends.gather = {}
    /\ fanPc' = "wait"
    /\ UNCHANGED <<fanConns, fanQueue, fanDelivered, fanLastBatch, fanTaken, fanPubTimes,
                   fanClock, fanStable, fanSends>>
    /\ UNCHANGED coreVars
    /\ UNCHANGED wsVars
    /\ UNCHANGED sideVars

\* time passes
FanTick ==
    /\ fanClock < MaxTime
    /\ fanClock' = fanClock + 1
    /\ UNCHANGED <<fanConns, fanQueue, fanPc, fanDelivered, fanLastBatch, fanTaken, fanPubTimes,
                   fanStable, fanSends>>
    /\ UNCHANGED coreVars
    /\ UNCHANGED wsVars
    /\ UNCHANGED sideVars

\* the core as constructed by app.py, never started
InitCore ==
    /\ InitLife
    /\ InitLedger({"base"}, {l \in LimitConfigs : l.min_margin_ratio = 0}, {1},
                  {[quantity |-> 0, avg_price |-> 0]})
    /\ price = 1

InitFanOut == InitCore /\ InitFan /\ InitWs({FALSE}) /\ InitAdv({"legacy"}) /\ InitBook

NextFan ==
    \/ \E w \in Subs : FanConnect(w) \/ FanDisconnect(w)
    \/ FanPublish
    \/ FanTake
    \/ \E w \in Subs : FanBreak(w)
    \/ \E w \in Subs : FanSendDone(w)
    \/ \E w \in Subs : FanStrayDone(w)
    \/ FanSent
    \/ FanTick

SpecFan == InitFanOut /\ [][NextFan]_vars

\* the event loop runs every task that is ready: the worker waiting on a
\* non-empty queue resumes, a send_text task on an open websocket ends, and a
\* gather whose tasks have all ended returns
FanFairness ==
    /\ WF_vars(FanTake)
    /\ WF_vars(FanSent)
    /\ \A w \in Subs : WF_vars(FanSendDone(w))
    /\ \A w \in Subs : WF_vars(FanStrayDone(w))

\* the fan-out without the clock: no step of the worker waits for it
NextFanLive ==
    \/ \E w \in Subs : FanConnect(w) \/ FanDisconnect(w)
    \/ FanPublish
    \/ FanTake
    \/ \E w \in Subs : FanBreak(w)
    \/ \E w \in Subs : FanSendDone(w)
    \/ \E w \in Subs : FanStrayDone(w)
    \/ FanSent

SpecFanLive == InitFanOut /\ [][NextFanLive]_vars /\ FanFairness

\* ------------------------------------------------------------ exchange websocket
\* A subscription request: the parameters in the order the caller gave them,
\* each a <<name, value>> pair.  The first two are one subscription written in
\* two orders.
Requests == { << <<1, 1>>, <<2, 1>> >>, << <<2, 1>>, <<1, 1>> >>, << <<1, 2>> >> }

RECURSIVE InsertParam(_, _)
InsertParam(p, sorted) ==
    IF sorted = <<>> THEN <<p>>
    ELSE IF p[1] <= Head(sorted)[1] THEN <<p>> \o sorted
    ELSE <<Head(sorted)>> \o InsertParam(p, Tail(sorted))

RECURSIVE SortParams(_)
SortParams(params) ==
    IF params = <<>> THEN <<>>
    ELSE InsertParam(Head(params), SortParams(Tail(params)))

\* WebSocketClient._get_subscription_key, and the key of
\* OKXWebSocketManager.unsubscribe (json.dumps(args, sort_keys=True))
GetSubscriptionKey(req) == SortParams(req)

Dials == {"ok", "fail"}
Auths == {"ok", "refused", "timeout"}
Kinds == {"good", "bad", "pong"}

\* OKXWebSocketManager.disconnect
Disconnect(m) ==
    [m EXCEPT !.should = FALSE, !.connected = FALSE, !.logged = FALSE,
              !.tasks = FALSE, !.link = "none"]

\* OKXWebSocketManager._resubscribe, run at the end of a successful connect
Resubscribe(m) ==
    [m EXCEPT !.tasks = TRUE, !.resent = m.table, !.server = m.table,
              !.sentN = @ + Cardinality(m.table), !.recovered = (m.loss > 0)]

\* OKXWebSocketManager.login as connect() uses it: skipped when is_logged_in is
\* still set, otherwise the server's answer decides
LoginOutcome(m, auth) == IF m.logged THEN "ok" ELSE auth

\* the socket is open: the login, when credentials are given, then the tasks
\* and the resubscription
ConnectOpened(m, creds, auth) ==
    IF creds /\ LoginOutcome(m, auth) # "ok"
    THEN [m |-> Disconnect([m EXCEPT !.authFailed = TRUE]), ok |-> FALSE]
    ELSE [m |-> Resubscribe([m EXCEPT !.logged = creds]), ok |-> TRUE]

\* an attempt made by the recovery code rather than by the owner
CountAttempt(m, auto) ==
    IF auto
    THEN [m EXCEPT !.attempts = @ + 1,
                   !.afterAuth = IF m.authFailed THEN 1 ELSE @]
    ELSE m

\* OKXWebSocketManager.connect
Connect(m, creds, dial, auth, auto) ==
    IF dial = "fail"
    THEN [m |-> [CountAttempt(m, auto) EXCEPT !.connected = FALSE], ok |-> FALSE]
    ELSE ConnectOpened([CountAttempt(m, auto) EXCEPT !.link = "up", !.connected = TRUE,
                                                     !.server = {}],
                       creds, auth)

WsData == <<wsInbox, wsDispatched, wsSeen, wsCache>>
WsCalls == <<wsOp, nWsOps>>
WsOther == <<coreVars, fanVars, wsCreds, sideVars>>

\* the owner calls connect()
MgrOpen(dial, auth) ==
    /\ ws.retry = "idle"
    /\ ~ws.connected
    /\ ~ws.closed
    /\ ws.loss = 0
    /\ ws' = Connect(ws, wsCreds, dial, auth, FALSE).m
    /\ UNCHANGED <<WsData, WsCalls, bc, WsOther>>

\* the owner calls disconnect()
MgrClose ==
    /\ ws.retry = "idle"
    /\ ws.connected
    /\ ws' = [Disconnect(ws) EXCEPT !.closed = TRUE, !.server = {}]
    /\ UNCHANGED <<WsData, WsCalls, bc, WsOther>>

\* the network or the exchange closes the socket
LinkDrops ==
    /\ ws.link = "up"
    /\ ws.loss < MaxLoss
    /\ ws' = [ws EXCEPT !.link = "dead", !.before = ws.server, !.server = {},
                        !.loss = @ + 1, !.attempts = 0, !.raised = FALSE,
                        !.recovered = FALSE]
    /\ UNCHANGED <<WsData, WsCalls, bc, WsOther>>

\* OKXWebSocketManager.reconnect up to its first sleep, entered from send()
\* when ws.send raised
ReconnectEntered(m) ==
    IF m.should THEN [m EXCEPT !.retry = "retry", !.tries = 0] ELSE m

\* OKXWebSocketManager.send
Send(m, key, adds) ==
    IF m.link = "up"
    THEN [m EXCEPT !.sentN = @ + 1,
                   !.server = IF adds THEN @ \cup {key} ELSE @ \ {key}]
    ELSE ReconnectEntered(m)

\* OKXWebSocketManager.subscribe
MgrSubscribe(req) ==
    /\ ws.retry = "idle"
    /\ nWsOps + Len(wsSeen) < MaxWsEvents
    /\ ws' = IF ws.connected THEN Send(ws, GetSubscriptionKey(req), TRUE) ELSE ws
    /\ wsOp' = [who |-> "mgr", op |-> "subscribe", key |-> GetSubscriptionKey(req)]
    /\ nWsOps' = nWsOps + 1
    /\ UNCHANGED <<WsData, bc, WsOther>>

\* OKXWebSocketManager.unsubscribe
MgrUnsubscribe(req) ==
    /\ ws.retry = "idle"
    /\ nWsOps + Len(wsSeen) < MaxWsEvents
    /\ ws' = IF GetSubscriptionKey(req) \in ws.table
             THEN IF ws.connected
                  THEN Send([ws EXCEPT !.table = @ \ {GetSubscriptionKey(req)}],
                            GetSubscriptionKey(req), FALSE)
                  ELSE [ws EXCEPT !.table = @ \ {GetSubscriptionKey(req)}]
             ELSE ws
    /\ wsOp' = [who |-> "mgr", op |-> "unsubscribe", key |-> GetSubscriptionKey(req)]
    /\ nWsOps' = nWsOps + 1
    /\ UNCHANGED <<WsData, bc, WsOther>>

\* _receive_loop (or _ping_loop) meets the closed socket: _handle_disconnect up
\* to its sleep
MgrNotice ==
    /\ ws.tasks
    /\ ws.connected
    /\ ws.link = "dead"
    /\ ws.pc = "idle"
    /\ ws' = [ws EXCEPT !.tasks = FALSE, !.link = "none", !.connected = FALSE,
                        !.logged = FALSE,
                        !.pc = IF ws.should THEN "handle" ELSE "idle"]
    /\ UNCHANGED <<WsData, WsCalls, bc, WsOther>>

\* _handle_disconnect after its sleep: one connect(), its result dropped
MgrHandleConnect(dial, auth) ==
    /\ ws.pc = "handle"
    /\ ws' = [Connect(ws, wsCreds, dial, auth, TRUE).m EXCEPT !.pc = "idle"]
    /\ UNCHANGED <<WsData, WsCalls, bc, WsOther>>

\* what reconnect() does with the result of one connect() of its loop
RetryResult(r) ==
    IF r.ok THEN [r.m EXCEPT !.retry = "idle"]
    ELSE IF r.m.tries + 1 >= WS_MAX_RETRIES
         THEN [r.m EXCEPT !.retry = "idle", !.tries = @ + 1, !.raised = TRUE]
         ELSE [r.m EXCEPT !.tries = @ + 1]

\* one round of the loop of reconnect()
MgrRetry(dial, auth) ==
    /\ ws.retry = "retry"
    /\ ws' = RetryResult(Connect(ws, wsCreds, dial, auth, TRUE))
    /\ UNCHANGED <<WsData, WsCalls, bc, WsOther>>

\* _receive_loop takes one message from the socket
MgrReceive(kind) ==
    /\ ws.tasks
    /\ ws.connected
    /\ ws.link = "up"
    /\ nWsOps + Len(wsSeen) < MaxWsEvents
    /\ wsSeen' = Append(wsSeen, kind)
    /\ wsInbox' = Append(wsInbox, Len(wsSeen) + 1)
    /\ UNCHANGED <<ws, wsDispatched, wsCache, WsCalls, bc, WsOther>>

\* _process_loop on a message json.loads refuses
DropMalformedTearDown(m) == [m EXCEPT !.connected = FALSE]

DropMalformed(m) == m

\* _process_loop takes one message from the queue
MgrProcess ==
    /\ ws.tasks
    /\ wsInbox # <<>>
    /\ wsInbox' = Tail(wsInbox)
    /\ IF wsSeen[Head(wsInbox)] = "good"
       THEN /\ wsDispatched' = Append(wsDispatched, Head(wsInbox))
            /\ wsCache' = Head(wsInbox)
            /\ ws' = ws
       ELSE /\ ws' = IF wsSeen[Head(wsInbox)] = "bad" THEN DropMalformed(ws) ELSE ws
            /\ UNCHANGED <<wsDispatched, wsCache>>
    /\ UNCHANGED <<wsSeen, WsCalls, bc, WsOther>>

\* WebSocketClient.connect
BaseConnect(dial) ==
    /\ bc' = IF dial = "ok"
             THEN [bc EXCEPT !.connected = TRUE, !.cycled = bc.closedOnce, !.resent = {}]
             ELSE bc
    /\ bc' # bc
    /\ UNCHANGED <<ws, WsData, WsCalls, WsOther>>

\* WebSocketClient.disconnect
BaseDisconnect ==
    /\ bc.connected
    /\ bc' = [bc EXCEPT !.connected = FALSE, !.before = bc.subs, !.subs = {},
                        !.closedOnce = TRUE, !.cycled = FALSE]
    /\ UNCHANGED <<ws, WsData, WsCalls, WsOther>>

\* WebSocketClient.subscribe
BaseSubscribe(req) ==
    /\ nWsOps + Len(wsSeen) < MaxWsEvents
    /\ bc' = IF GetSubscriptionKey(req) \notin bc.subs
             THEN [bc EXCEPT !.sentN = @ + 1, !.subs = @ \cup {GetSubscriptionKey(req)}]
             ELSE bc
    /\ wsOp' = [who |-> "base", op |-> "subscribe", key |-> GetSubscriptionKey(req)]
    /\ nWsOps' = nWsOps + 1
    /\ UNCHANGED <<ws, WsData, WsOther>>

\* WebSocketClient.unsubscribe
BaseUnsubscribe(req) ==
    /\ nWsOps + Len(wsSeen) < MaxWsEvents
    /\ bc' = IF GetSubscriptionKey(req) \in bc.subs
             THEN [bc EXCEPT !.sentN = @ + 1, !.subs = @ \ {GetSubscriptionKey(req)}]
             ELSE bc
    /\ wsOp' = [who |-> "base", op |-> "unsubscribe", key |-> GetSubscriptionKey(req)]
    /\ nWsOps' = nWsOps + 1
    /\ UNCHANGED <<ws, WsData, WsOther>>

InitSockets == InitCore /\ InitFan /\ InitWs(BOOLEAN) /\ InitAdv({"legacy"}) /\ InitBook

NextWs ==
    \/ \E dial \in Dials, auth \in Auths : MgrOpen(dial, auth)
    \/ MgrClose
    \/ LinkDrops
    \/ \E req \in Requests : MgrSubscribe(req)
    \/ \E req \in Requests : MgrUnsubscribe(req)
    \/ MgrNotice
    \/ \E dial \in Dials, auth \in Auths : MgrHandleConnect(dial, auth)
    \/ \E dial \in Dials, auth \in Auths : MgrRetry(dial, auth)
    \/ \E kind \in Kinds : MgrReceive(kind)
    \/ MgrProcess

SpecWs == InitSockets /\ [][NextWs]_vars

NextBase ==
    \/ \E dial \in Dials : BaseConnect(dial)
    \/ BaseDisconnect
    \/ \E req \in Requests : BaseSubscribe(req)
    \/ \E req \in Requests : BaseUnsubscribe(req)

SpecBase == InitSockets /\ [][NextBase]_vars

\* ------------------------------------------------------------ advisory call
\* what the model server's reply text holds
Replies == {"buy", "sell", "hold", "watch", "badjson", "nojson"}

\* how the HTTP exchange ends
Outcomes == {"reply", "http_error", "timeout", "error"}

\* DeepseekStrategy.analyze_market on a reply: the recommendation is normalised
\* to buy / sell / hold; a JSONDecodeError gives the default analysis; a text
\* without a JSON object falls out of the function, which returns None
ParseLegacy(reply) ==
    IF reply = "nojson" THEN "none"
    ELSE IF reply = "badjson" THEN DefaultAnalysis
    ELSE IF reply = "buy" THEN "buy"
    ELSE IF reply = "sell" THEN "sell"
    ELSE "hold"

\* MarketAnalyzer._parse_analysis_response: anything but a JSON object with a
\* recommendation among buy / sell / watch gives the default analysis
ParseAnalyzer(reply) ==
    IF reply \in {"buy", "sell", "watch"} THEN reply ELSE DefaultAnalysis

\* the reply carries a recommendation the class accepts
ReplyAccepted(class, reply) ==
    IF class = "legacy" THEN reply \in {"buy", "sell", "hold", "watch"}
    ELSE reply \in {"buy", "sell", "watch"}

\* DeepseekStrategy.analyze_market followed by on_tick's
\* "self.last_analysis = analysis"; a status other than 200 is not looked at
\* and its body holds no analysis
AnalyzeLegacy(a, now, outcome, reply, context) ==
    IF now - a.last_time < AnalysisInterval
    THEN [a |-> a, ret |-> a.cache, asked |-> FALSE]
    ELSE IF ~context
    THEN [a |-> [a EXCEPT !.last_time = now, !.cache = DefaultAnalysis],
          ret |-> DefaultAnalysis, asked |-> FALSE]
    ELSE IF outcome \in {"timeout", "error"}
    THEN [a |-> [a EXCEPT !.last_time = now, !.cache = DefaultAnalysis],
          ret |-> DefaultAnalysis, asked |-> TRUE]
    ELSE IF outcome = "http_error"
    THEN [a |-> [a EXCEPT !.last_time = now, !.cache = ParseLegacy("nojson")],
          ret |-> ParseLegacy("nojson"), asked |-> TRUE]
    ELSE [a |-> [a EXCEPT !.last_time = now, !.cache = ParseLegacy(reply)],
          ret |-> ParseLegacy(reply), asked |-> TRUE]

\* MarketAnalyzer.analyze_market
AnalyzeAnalyzer(a, now, outcome, reply) ==
    IF now - a.last_time < AnalysisInterval
    THEN [a |-> a, ret |-> a.cache, asked |-> FALSE]
    ELSE IF outcome # "reply"
    THEN [a |-> a, ret |-> a.cache, asked |-> TRUE]
    ELSE [a |-> [a EXCEPT !.last_time = now, !.cache = ParseAnalyzer(reply)],
          ret |-> ParseAnalyzer(reply), asked |-> TRUE]

\* the record of the request and the recommendation of the last success
AdviceDone(r, outcome, reply) ==
    /\ adv' = [r.a EXCEPT !.good =
                  IF r.asked /\ outcome = "reply" /\ ReplyAccepted(adv.class, reply)
                  THEN r.ret ELSE @]
    /\ advLast' = [outcome |-> outcome, reply |-> reply, ret |-> r.ret, asked |-> r.asked,
                   failed |-> r.asked /\ ~(outcome = "reply" /\ ReplyAccepted(adv.class, reply))]

\* on_tick asks for the analysis
AdviceTick ==
    /\ nAdvCalls < MaxAdvCalls
    /\ \E outcome \in Outcomes, reply \in Replies, context \in BOOLEAN :
         /\ outcome # "reply" => reply = "nojson"
         /\ adv.class = "analyzer" => context
         /\ IF adv.class = "legacy"
            THEN AdviceDone(AnalyzeLegacy(adv, advClock, outcome, reply, context), outcome, reply)
            ELSE AdviceDone(AnalyzeAnalyzer(adv, advClock, outcome, reply), outcome, reply)
    /\ nAdvCalls' = nAdvCalls + 1
    /\ UNCHANGED <<advClock, bookVars, lp, cacheVars, coreVars, fanVars,
                   wsVars>>

\* time passes
AdviceClock ==
    /\ advClock < MaxAdvTime
    /\ advClock' = advClock + 1
    /\ UNCHANGED <<adv, advLast, nAdvCalls, bookVars, lp, cacheVars, coreVars, fanVars,
                   wsVars>>

InitAdvice == InitCore /\ InitFan /\ InitWs({FALSE}) /\ InitAdv({"legacy", "analyzer"}) /\ InitBook

NextAdvice == AdviceTick \/ AdviceClock

SpecAdvice == InitAdvice /\ [][NextAdvice]_vars

\* ------------------------------------------------------------ order book
\* the ask levels an order-book message can carry: <<price, size>> pairs with
\* distinct prices, in any order
BookLevels == (1 .. MaxBookPrice) \X (0 .. MaxBookSize)

BookMessages ==
    {m \in UNION {[1 .. n -> BookLevels] : n \in 0 .. MaxBookLevels} :
        \A i, k \in 1 .. Len(m) : i # k => m[i][1] # m[k][1]}

\* OKXWebSocketClient._handle_orderbook: the new asks list
HandleOrderbook(levels) == SelectSeq(levels, LAMBDA l : l[2] > 0)

\* MarketDataManager.update_orderbook: the new asks list
UpdateOrderbook(levels) == [i \in 1 .. Len(levels) |-> <<levels[i][1], levels[i][2]>>]

\* an order-book message arrives and is handed to both holders of a book
BookUpdate ==
    /\ nBookUpdates < MaxBookUpdates
    /\ \E m \in BookMessages :
         /\ book' = HandleOrderbook(m)
         /\ mdBook' = UpdateOrderbook(m)
         /\ bookLast' = m
    /\ nBookUpdates' = nBookUpdates + 1
    /\ UNCHANGED <<advVars, lp, cacheVars, coreVars, fanVars,
                   wsVars>>

NextBook == BookUpdate

SpecBook == InitFanOut /\ [][NextBook]_vars

\* ------------------------------------------------------------ manager tasks
\* the three loops connect() starts
TaskKinds == {"ping", "recv", "proc"}

\* _ping_loop: the seconds it sleeps after a ping, and the age of the ping
\* above which it gives the connection up
PING_SLEEP == 5
PING_GRACE == 10

\* the manager after an operation, with the operation noted; silent: a ping
\* went out and no message came in the sleep after it; declared: the turn
\* ended in _handle_disconnect
Noted(m, op) ==
    [m EXCEPT !.n = @ + 1, !.last = [op |-> op, silent |-> FALSE, declared |-> FALSE]]

\* OKXWebSocketManager.connect, no API key and no subscription held: the new
\* socket and the new tasks take the place of the ones the attributes named,
\* which are neither closed nor cancelled
LoopConnect(m, dial) ==
    IF dial = "fail"
    THEN [m EXCEPT !.connected = FALSE]
    ELSE [m EXCEPT !.link = "up", !.connected = TRUE, !.ref = TaskKinds,
                   !.orphans = [k \in TaskKinds |-> @[k] + IF k \in m.ref THEN 1 ELSE 0],
                   !.handler = IF @ = "ref" THEN "orphan" ELSE @]

\* OKXWebSocketManager._handle_disconnect up to its sleep, run by a task the
\* attributes name ("ref") or by one they no longer name ("orphan")
HandleDisconnect(m, from) ==
    [m EXCEPT !.ref = {}, !.link = "none", !.connected = FALSE,
              !.handler = IF m.should THEN from ELSE "idle"]

\* OKXWebSocketManager.disconnect: the tasks the attributes name are cancelled
\* and awaited, _handle_disconnect with them when one of them runs it
LoopDisconnect(m) ==
    [m EXCEPT !.should = FALSE, !.connected = FALSE, !.ref = {}, !.link = "none",
              !.handler = IF @ = "ref" THEN "idle" ELSE @, !.closed = TRUE]

\* the owner calls connect()
LoopsOpen(dial) ==
    /\ lp.n < MaxLoopOps
    /\ lp.retry = "idle"
    /\ lp.handler = "idle"
    /\ lp' = [Noted(LoopConnect(lp, dial), "connect") EXCEPT !.closed = FALSE]
    /\ UNCHANGED <<advVars, bookVars, cacheVars, coreVars, fanVars,
                   wsVars>>

\* the owner calls disconnect()
LoopsClose ==
    /\ lp.n < MaxLoopOps
    /\ lp' = Noted(LoopDisconnect(lp), "disconnect")
    /\ UNCHANGED <<advVars, bookVars, cacheVars, coreVars, fanVars,
                   wsVars>>

\* the socket is closed by the network or the exchange
LoopsLinkDrops ==
    /\ lp.n < MaxLoopOps
    /\ lp.link \in {"up", "silent"}
    /\ lp' = Noted([lp EXCEPT !.link = "dead"], "drop")
    /\ UNCHANGED <<advVars, bookVars, cacheVars, coreVars, fanVars,
                   wsVars>>

\* the exchange stops sending: the socket stays open and takes what is sent
LoopsSilence ==
    /\ lp.n < MaxLoopOps
    /\ lp.link = "up"
    /\ lp' = Noted([lp EXCEPT !.link = "silent"], "silence")
    /\ UNCHANGED <<advVars, bookVars, cacheVars, coreVars, fanVars,
                   wsVars>>

\* OKXWebSocketManager.send: ws.send raises on a closed socket and reconnect()
\* runs up to its first sleep
LoopsSend ==
    /\ lp.n < MaxLoopOps
    /\ lp.connected
    /\ lp.retry = "idle"
    /\ lp' = Noted(IF lp.link = "dead" /\ lp.should
                   THEN [lp EXCEPT !.retry = "sleep", !.tries = 0]
                   ELSE lp, "send")
    /\ UNCHANGED <<advVars, bookVars, cacheVars, coreVars, fanVars,
                   wsVars>>

\* one round of the loop of reconnect()
LoopsRetry(dial) ==
    /\ lp.retry = "sleep"
    /\ lp' = IF dial = "ok"
             THEN [LoopConnect(lp, dial) EXCEPT !.retry = "idle"]
             ELSE [LoopConnect(lp, dial) EXCEPT
                      !.tries = @ + 1,
                      !.retry = IF lp.tries + 1 >= WS_MAX_RETRIES THEN "idle" ELSE @]
    /\ UNCHANGED <<advVars, bookVars, cacheVars, coreVars, fanVars,
                   wsVars>>

\* _receive_loop of the tasks in charge: recv raises on the closed socket
LoopsReceiveFails ==
    /\ "recv" \in lp.ref
    /\ lp.connected
    /\ lp.link = "dead"
    /\ lp.handler = "idle"
    /\ lp' = HandleDisconnect(lp, "ref")
    /\ UNCHANGED <<advVars, bookVars, cacheVars, coreVars, fanVars,
                   wsVars>>

\* _receive_loop of a replaced set of tasks: recv raises on its socket
LoopsOrphanFails ==
    /\ lp.orphans["recv"] > 0
    /\ lp.connected
    /\ lp.handler = "idle"
    /\ lp' = HandleDisconnect([lp EXCEPT !.orphans["recv"] = @ - 1], "orphan")
    /\ UNCHANGED <<advVars, bookVars, cacheVars, coreVars, fanVars,
                   wsVars>>

\* _ping_loop: "while self.is_connected" ends the loop
LoopsPingExit ==
    /\ ~lp.connected
    /\ lp.handler = "idle"
    /\ "ping" \in lp.ref \/ lp.orphans["ping"] > 0
    /\ lp' = [lp EXCEPT !.ref = @ \ {"ping"}, !.orphans["ping"] = 0]
    /\ UNCHANGED <<advVars, bookVars, cacheVars, coreVars, fanVars,
                   wsVars>>

\* _handle_disconnect after its sleep: connect()
LoopsHandlerConnect(dial) ==
    /\ lp.handler # "idle"
    /\ lp' = [LoopConnect(lp, dial) EXCEPT !.handler = "idle"]
    /\ UNCHANGED <<advVars, bookVars, cacheVars, coreVars, fanVars,
                   wsVars>>

\* what _ping_loop decides after the sleep that follows its ping: the age of
\* the ping against the grace; heard, whether a message came, is not read
PingGivesUp(heard) == PING_SLEEP > PING_GRACE

\* one turn of _ping_loop of the tasks in charge: the ping, the sleep, the test
LoopsPing(heard) ==
    /\ lp.n < MaxLoopOps
    /\ "ping" \in lp.ref
    /\ lp.connected
    /\ lp.handler = "idle"
    /\ lp.link # "none"
    /\ lp.link # "up" => ~heard
    /\ lp' = IF lp.link = "dead" \/ PingGivesUp(heard)
             THEN [Noted(HandleDisconnect(lp, "ref"), "ping") EXCEPT
                      !.last.silent = (lp.link # "dead" /\ ~heard), !.last.declared = TRUE]
             ELSE [Noted(lp, "ping") EXCEPT !.last.silent = ~heard]
    /\ UNCHANGED <<advVars, bookVars, cacheVars, coreVars, fanVars,
                   wsVars>>

\* the loops of one kind that are alive
Alive(k) == (IF k \in lp.ref THEN 1 ELSE 0) + lp.orphans[k]

NextLoops ==
    \/ \E dial \in Dials : LoopsOpen(dial)
    \/ LoopsClose
    \/ LoopsLinkDrops
    \/ LoopsSilence
    \/ LoopsSend
    \/ \E dial \in Dials : LoopsRetry(dial)
    \/ LoopsReceiveFails
    \/ LoopsOrphanFails
    \/ LoopsPingExit
    \/ \E dial \in Dials : LoopsHandlerConnect(dial)
    \/ \E heard \in BOOLEAN : LoopsPing(heard)

SpecLoops == InitFanOut /\ [][NextLoops]_vars

\* ------------------------------------------------------------ bounded buffers
\* the intervals candles arrive for
Intervals == {"1m", "5m"}

\* the position of key k in the OrderedDict d, 0 when d has no such key
KeyIndex(d, k) ==
    IF \E i \in 1 .. Len(d) : d[i][1] = k
    THEN CHOOSE i \in 1 .. Len(d) : d[i][1] = k
    ELSE 0

\* d[k] = v on an OrderedDict: a key it holds keeps its place, a new key goes
\* to the end
SetItem(d, k, v) ==
    IF KeyIndex(d, k) > 0
    THEN [i \in 1 .. Len(d) |-> IF d[i][1] = k THEN <<k, v>> ELSE d[i]]
    ELSE Append(d, <<k, v>>)

\* popitem(last=True)
PopNewest(d) == SubSeq(d, 1, Len(d) - 1)

\* popitem(last=False)
PopOldest(d) == Tail(d)

\* "while len(d) > cap: d.popitem(last=False)"
RECURSIVE KeepWithin(_, _)
KeepWithin(d, cap) ==
    IF Len(d) > cap THEN KeepWithin(PopOldest(d), cap) ELSE d

\* OKXWebSocketClient._handle_trades: the trades of the message, one by one
RECURSIVE HandleTrades(_, _)
HandleTrades(d, data_list) ==
    IF data_list = <<>> THEN d
    ELSE HandleTrades(KeepWithin(SetItem(d, Head(data_list)[1], Head(data_list)[2]),
                                 MaxTradeCache),
                      Tail(data_list))

\* OKXWebSocketClient._handle_candlestick
HandleCandlestick(c, interval, ts, v) ==
    [c EXCEPT ![interval] = KeepWithin(SetItem(@, ts, v), MaxKlineCache)]

\* a trades message of one or two trades arrives; the payload of an entry
\* is the number of the message
OkxTrades ==
    /\ nOkxOps < MaxCacheOps
    /\ \E n \in 1 .. 2 : \E ks \in [1 .. n -> 1 .. MaxCacheKeys] :
         /\ okxTrades' = HandleTrades(okxTrades, [i \in 1 .. n |-> <<ks[i], nOkxOps + 1>>])
         /\ okxLast' = [kind |-> "trades", interval |-> "none",
                        entries |-> [i \in 1 .. n |-> <<ks[i], nOkxOps + 1>>],
                        full |-> Len(okxTrades) = MaxTradeCache,
                        fresh |-> \A i \in 1 .. n : KeyIndex(okxTrades, ks[i]) = 0]
    /\ nOkxOps' = nOkxOps + 1
    /\ UNCHANGED <<okxCandles, klineVars, advVars, bookVars, lp, coreVars, fanVars, wsVars>>

\* a candle message arrives
OkxCandle ==
    /\ nOkxOps < MaxCacheOps
    /\ \E interval \in Intervals, ts \in 1 .. MaxCacheKeys :
         /\ okxCandles' = HandleCandlestick(okxCandles, interval, ts, nOkxOps + 1)
         /\ okxLast' = [kind |-> "candle", interval |-> interval,
                        entries |-> << <<ts, nOkxOps + 1>> >>,
                        full |-> Len(okxCandles[interval]) = MaxKlineCache,
                        fresh |-> KeyIndex(okxCandles[interval], ts) = 0]
    /\ nOkxOps' = nOkxOps + 1
    /\ UNCHANGED <<okxTrades, klineVars, advVars, bookVars, lp, coreVars, fanVars, wsVars>>

NextBuffers == OkxTrades \/ OkxCandle

SpecBuffers == InitFanOut /\ [][NextBuffers]_vars

\* ------------------------------------------------------------ kline cache
\* the candles a caller can pass: <<timestamp, close>>
Klines == (1 .. MaxKlineTs) \X (1 .. MaxPrice)

\* series of candles by ascending timestamp, as the exchange history gives them
KlineSeries ==
    {q \in UNION {[1 .. n -> Klines] : n \in 1 .. MaxKlines} :
        \A i \in 1 .. Len(q) - 1 : q[i][1] < q[i + 1][1]}

\* the insert ... on_conflict_do_update of one candle
DbUpsert(db, k) == [db EXCEPT ![k[1]] = k[2]]

RECURSIVE DbUpsertAll(_, _)
DbUpsertAll(db, q) ==
    IF q = <<>> THEN db ELSE DbUpsertAll(DbUpsert(db, Head(q)), Tail(q))

\* the rows of the table by ascending timestamp, from timestamp t on
RECURSIVE DbRows(_, _)
DbRows(db, t) ==
    IF t > MaxKlineTs THEN <<>>
    ELSE IF db[t] = 0 THEN DbRows(db, t + 1)
    ELSE << <<t, db[t]>> >> \o DbRows(db, t + 1)

\* the last n entries of a series: q[-n:]
Newest(q, n) == IF Len(q) > n THEN SubSeq(q, Len(q) - n + 1, Len(q)) ELSE q

\* RedisManager.cache_klines: the entry becomes the list it is given
CacheKlines(klines) == klines

\* the list RedisManager.update_kline builds from the cached one: the candle
\* replaces the one of its timestamp or is added and the list sorted, then the
\* newest are kept
RECURSIVE InsertKline(_, _)
InsertKline(q, k) ==
    IF q = <<>> THEN <<k>>
    ELSE IF k[1] < Head(q)[1] THEN <<k>> \o q
    ELSE <<Head(q)>> \o InsertKline(Tail(q), k)

UpdatedKlines(cached, k) ==
    Newest(IF \E i \in 1 .. Len(cached) : cached[i][1] = k[1]
           THEN [i \in 1 .. Len(cached) |-> IF cached[i][1] = k[1] THEN k ELSE cached[i]]
           ELSE InsertKline(cached, k),
           MaxKlines)

\* RedisManager.update_kline: nothing without a cached list; otherwise the
\* updated list is built and cache_klines is called with [kline]
RedisUpdateKline(cached, k) ==
    IF cached = <<>> THEN cached ELSE CacheKlines(<<k>>)

\* KlineManager.init_klines
KlineInit ==
    /\ nKlineOps < MaxKlineOps
    /\ \E q \in KlineSeries :
         /\ klineDb' = DbUpsertAll(klineDb, q)
         /\ klineCache' = CacheKlines(q)
         /\ klineLast' = [op |-> "init", kline |-> <<>>, cached |-> FALSE,
                          before |-> klineCache]
    /\ nKlineOps' = nKlineOps + 1
    /\ UNCHANGED <<okxVars, advVars, bookVars, lp, coreVars, fanVars, wsVars>>

\* KlineManager.update_kline: the table first, then, when a row was written,
\* the cache
KlineUpdate ==
    /\ nKlineOps < MaxKlineOps
    /\ \E k \in Klines :
         IF klineDb[k[1]] # k[2]
         THEN /\ klineDb' = DbUpsert(klineDb, k)
              /\ klineCache' = RedisUpdateKline(klineCache, k)
              /\ klineLast' = [op |-> "update", kline |-> k, cached |-> TRUE,
                               before |-> klineCache]
         ELSE /\ klineLast' = [op |-> "update", kline |-> k, cached |-> FALSE,
                               before |-> klineCache]
              /\ UNCHANGED <<klineDb, klineCache>>
    /\ nKlineOps' = nKlineOps + 1
    /\ UNCHANGED <<okxVars, advVars, bookVars, lp, coreVars, fanVars, wsVars>>

\* KlineManager.get_klines: a missing entry is filled from the table
KlineGet ==
    /\ nKlineOps < MaxKlineOps
    /\ klineCache' = IF klineCache = <<>>
                     THEN CacheKlines(Newest(DbRows(klineDb, 1), MaxKlines))
                     ELSE klineCache
    /\ klineLast' = [op |-> "get", kline |-> <<>>, cached |-> FALSE, before |-> klineCache]
    /\ nKlineOps' = nKlineOps + 1
    /\ UNCHANGED <<klineDb, okxVars, advVars, bookVars, lp, coreVars, fanVars, wsVars>>

\* the Redis entry expires
KlineExpire ==
    /\ nKlineOps < MaxKlineOps
    /\ klineCache # <<>>
    /\ klineCache' = <<>>
    /\ klineLast' = [op |-> "expire", kline |-> <<>>, cached |-> FALSE, before |-> klineCache]
    /\ nKlineOps' = nKlineOps + 1
    /\ UNCHANGED <<klineDb, okxVars, advVars, bookVars, lp, coreVars, fanVars, wsVars>>

NextKline == KlineInit \/ KlineUpdate \/ KlineGet \/ KlineExpire

SpecKline == InitFanOut /\ [][NextKline]_vars

\* ================================================================ claims
RECURSIVE SignedSum(_)
\* signed sum of the quantities of a sequence of trade records
SignedSum(ts) ==
    IF ts = <<>> THEN 0
    ELSE (IF ts[1].side = "BUY" THEN ts[1].quantity ELSE -ts[1].quantity) + SignedSum(Tail(ts))

\* the ledger fields a refused call must leave alone
LedgerView(L) ==
    <<L.quantity, L.avg_price, L.total_pnl, L.total_commission, L.daily_pnl, L.trades>>

\* C8 (as claimed): a buy or sell refused by check_order or check_position leaves
\* quantity, average price, total PnL, total commission, daily PnL and the trade
\* log as they were before the call.
C8_RefusalMutatesNothing ==
    (lastTrade.out = "refused" /\ lastTrade.by \in {"check_order", "check_position"})
        => LedgerView(ledger) = LedgerView(lastTrade.pre)

\* C9: the position quantity equals the initial quantity plus the signed sum of
\* the recorded fills (buys positive, sells negative).
C9_QuantityIsSignedSum ==
    ledger.quantity = initQty + SignedSum(ledger.trades)

\* C9 witness: fills in both directions were applied after a refused call
C9_Witness ==
    /\ Len(ledger.trades) >= 2
    /\ \E i, j \in 1 .. Len(ledger.trades) :
          ledger.trades[i].side = "BUY" /\ ledger.trades[j].side = "SELL"
    /\ ledger.quantity # initQty

\* the two fills after the position last left flat: one opens, the next closes,
\* both at the same price, with no commission
RoundTrip ==
    /\ rate = 0
    /\ openMark.n >= 0
    /\ Len(ledger.trades) = openMark.n + 2
    /\ ledger.quantity = 0
    /\ ledger.trades[openMark.n + 1].price = ledger.trades[openMark.n + 2].price

\* C10: after a round trip at one price with zero commission the cumulative
\* realized PnL is what it was when the position was opened (0 on a fresh
\* ledger), the closing fill realizes 0, and the average price is 0.
C10_RoundTripIsNeutral ==
    RoundTrip =>
        /\ ledger.total_pnl = openMark.pnl
        /\ ledger.trades[openMark.n + 2].realized_pnl = 0
        /\ ledger.avg_price = 0
        /\ (openMark.n = 0 => ledger.total_pnl = 0)

\* C10 witness: a short round trip (sell to open, buy to close) has completed
C10_Witness ==
    /\ RoundTrip
    /\ ledger.trades[openMark.n + 1].side = "SELL"
    /\ ledger.trades[openMark.n + 2].side = "BUY"

\* a long round trip (buy to open, sell to close) has completed
LongRoundTripSeen ==
    /\ RoundTrip
    /\ ledger.trades[openMark.n + 1].side = "BUY"

\* ------------------------------------------------------------ lifecycle claims
\* the status saves and event publications of a completed call, in order
StatusEffects(fx) == SelectSeq(fx, LAMBDA x : x \in {"persist", "publish"})

\* polling tasks that exist and have not been cancelled
LiveTasks == {t \in TaskIds : taskPc[t] # "free" /\ ~taskCancel[t]}

\* C1 (as claimed): stop() called in Running, Paused or Error raises nothing and
\* leaves the machine in Stopped (the state store and price fetch working).
C1_StopAccepted ==
    (last.op = "stop" /\ last.pre.fsm \in {"Running", "Paused", "Error"} /\ last.fault = "none")
        => (last.out = "ok" /\ fsm = "Stopped")

\* C2 (as claimed): start() called in Stopped, Paused or Error, and pause() called
\* in Running, complete without raising and leave Running, respectively Paused
\* (the state store and price fetch working).
C2_StartPauseAccepted ==
    /\ (last.op = "start" /\ last.pre.fsm \in {"Stopped", "Paused", "Error"}
            /\ last.fault = "none")
          => (last.out = "ok" /\ fsm = "Running")
    /\ (last.op = "pause" /\ last.pre.fsm = "Running" /\ last.fault = "none")
          => (last.out = "ok" /\ fsm = "Paused")

C5_NoTradeAfterStop ==
    [][(fence = "stop" /\ fence' = "stop") => LedgerView(ledger') = LedgerView(ledger)]_vars

\* C5 witness: stop() has returned while a tick that had already traded was
\* still suspended in the analysis call
C5_Witness ==
    /\ fence = "stop"
    /\ last.op = "stop"
    /\ last.out = "ok"
    /\ ledger.trades # <<>>
    /\ \E t \in TaskIds : taskPc[t] = "tick" /\ taskCancel[t]

\* C6 (as claimed): every accepted start / stop / pause saves the status once
\* and then publishes exactly one state-change event.
C6_PersistThenPublishOnce ==
    (last.op \in {"start", "stop", "pause"} /\ last.out = "ok")
        => StatusEffects(last.fx) = <<"persist", "publish">>

Notional(L) == Abs(L.quantity) * L.avg_price

\* C11 (as claimed): whatever buys and sells were accepted, the position's
\* notional value does not exceed max_position_value, long or short.
C11_NotionalWithinLimit == Notional(ledger) <= limit.max_position_value * DecimalScale

\* the order value check_order computes for the call recorded in t, at market
\* price mp
OrderValue(t, mp) == t.quantity * (IF t.px = NoPrice THEN mp ELSE t.px)

\* the call recorded in t got as far as check_order
ReachedCheckOrder(t) ==
    t.quantity > 0 /\ (t.px = NoPrice \/ t.px > 0) /\ OrderInit(validator)

\* the price deviation test and the position value test of check_order pass
LaterChecksPass(t, mp) ==
    /\ t.px = NoPrice \/ Abs(t.px - mp) * DecimalScale <= limit.price_deviation * mp
    /\ PositionValue(t.pre.quantity, t.pre.avg_price) + OrderValue(t, mp) * DecimalScale
          <= limit.max_position_value * DecimalScale

\* C12: an order valued below min_order_value or above max_order_value is
\* refused by check_order; one valued strictly between the two, whose deviation
\* and position tests pass, is not refused by check_order.
C12_OrderValueBand ==
    [][(nOrders' # nOrders /\ ReachedCheckOrder(lastTrade'))
          => /\ (OrderValue(lastTrade', price) < limit.min_order_value
                   \/ OrderValue(lastTrade', price) > limit.max_order_value)
                  => (lastTrade'.out = "refused" /\ lastTrade'.by = "check_order")
             /\ (/\ OrderValue(lastTrade', price) > limit.min_order_value
                 /\ OrderValue(lastTrade', price) < limit.max_order_value
                 /\ LaterChecksPass(lastTrade', price))
                  => lastTrade'.by # "check_order"]_vars

\* C12 witness: a limit order valued strictly between the bounds went through
C12_Witness ==
    /\ lastTrade.px > 0
    /\ lastTrade.out = "ok"
    /\ lastTrade.quantity * lastTrade.px > limit.min_order_value
    /\ lastTrade.quantity * lastTrade.px < limit.max_order_value

\* the outcome of the call recorded in t had the daily total been zero
OutcomeAtZeroDailyPnl(t, mp, now) ==
    IF t.side = "buy"
    THEN Buy([t.pre EXCEPT !.daily_pnl = 0], t.quantity, t.px, mp, now).out
    ELSE Sell([t.pre EXCEPT !.daily_pnl = 0], t.quantity, t.px, mp, now).out

\* C13: a trade that goes through adds its realized PnL to the daily total,
\* which restarts from zero when the day has changed since the last reset;
\* update_pnl fails exactly when the total is a loss above max_daily_loss; and
\* whether an order is refused does not depend on the daily total.
C13_DailyPnl ==
    [][nOrders' # nOrders
          => /\ lastTrade'.out = "ok"
                  => /\ ledger'.daily_pnl =
                          (IF today > ledger.last_pnl_reset THEN 0 ELSE ledger.daily_pnl)
                          + ledger'.trades[Len(ledger'.trades)].realized_pnl
                     /\ lastTrade'.pnl_ok
                          <=> ~(ledger'.daily_pnl < -(limit.max_daily_loss * DecimalScale))
             /\ lastTrade'.out # "ok" => ledger'.daily_pnl = ledger.daily_pnl
             /\ lastTrade'.out = OutcomeAtZeroDailyPnl(lastTrade', price, today)]_vars

\* C13 witness: an order went through although the daily loss was already above
\* max_daily_loss
C13_Witness ==
    /\ lastTrade.side # "none"
    /\ lastTrade.out = "ok"
    /\ lastTrade.pre.daily_pnl < -(limit.max_daily_loss * DecimalScale)

\* ------------------------------------------------------------ fan-out claims
\* C19: each batch the worker takes hands exactly one message, the last one of
\* the batch, to every websocket listed for the symbol, and nothing to the
\* others; the earlier messages of the batch are handed to nobody.
C19_LatestOfBatchToAll ==
    [][fanTaken' # fanTaken
          => /\ fanLastBatch' = SubSeq(fanQueue, 1, Len(fanQueue) - Len(fanQueue'))
             /\ fanLastBatch' # <<>>
             /\ \A w \in Subs :
                   fanDelivered'[w] =
                       IF w \in fanConns
                       THEN Append(fanDelivered[w], fanLastBatch'[Len(fanLastBatch')])
                       ELSE fanDelivered[w]]_vars

\* C19 witness: a batch of two messages has just been handed to two websockets
C19_Witness ==
    /\ fanPc = "send"
    /\ Len(fanLastBatch) = 2
    /\ fanConns = Subs
    /\ \A w \in Subs : fanDelivered[w] # <<>>

\* the worker is idle and its queue empty
FanSettled == fanQueue = <<>> /\ fanPc = "wait"

C14_ResubscribesActiveSet ==
    /\ ws.recovered => ws.resent = ws.before
    /\ bc.cycled => bc.resent = bc.before

\* C15: a subscribe of a key that is already active, and an unsubscribe of a
\* key that is not, send no request and leave the active set as it was,
\* whatever the order the parameters are written in.
C15_IdempotentByKey ==
    [][nWsOps' # nWsOps =>
        /\ (wsOp'.who = "mgr" /\ ws.connected /\ ws.link = "up"
                /\ wsOp'.op = "subscribe" /\ wsOp'.key \in ws.server)
             => (ws'.sentN = ws.sentN /\ ws'.server = ws.server)
        /\ (wsOp'.who = "mgr" /\ ws.connected /\ ws.link = "up"
                /\ wsOp'.op = "unsubscribe" /\ wsOp'.key \notin ws.server)
             => (ws'.sentN = ws.sentN /\ ws'.server = ws.server)
        /\ (wsOp'.who = "base" /\ wsOp'.op = "subscribe" /\ wsOp'.key \in bc.subs)
             => (bc'.sentN = bc.sentN /\ bc'.subs = bc.subs)
        /\ (wsOp'.who = "base" /\ wsOp'.op = "unsubscribe" /\ wsOp'.key \notin bc.subs)
             => (bc'.sentN = bc.sentN /\ bc'.subs = bc.subs)]_vars

\* the recovery code is at rest: no sleep of _handle_disconnect or reconnect()
\* is pending and no closed socket is still to be noticed
RecoveryAtRest ==
    /\ ws.pc = "idle"
    /\ ws.retry = "idle"
    /\ ~(ws.tasks /\ ws.connected /\ ws.link = "dead")

\* C16: after a connection loss the recovery makes at most WS_MAX_RETRIES
\* attempts, and when it has come to rest without a connection (the owner not
\* having closed it, no login having been refused) the error has been raised.
C16_BoundedRetriesThenError ==
    /\ ws.loss > 0 => ws.attempts <= WS_MAX_RETRIES
    /\ (ws.loss > 0 /\ ~ws.closed /\ ~ws.authFailed /\ RecoveryAtRest /\ ~ws.connected)
         => ws.raised

\* C17: after a login that was refused or timed out the recovery code makes
\* no further connect or login attempt.
C17_LoginFailureIsFatal == ws.afterAuth = 0

\* the dispatched messages are the well-formed ones received, in order, and
\* all of them once the queue is empty
DispatchedInOrder ==
    /\ \A i \in 1..Len(wsDispatched) : wsSeen[wsDispatched[i]] = "good"
    /\ \A i \in 1..(Len(wsDispatched) - 1) : wsDispatched[i] < wsDispatched[i + 1]
    /\ wsInbox = <<>> =>
         \A i \in 1..Len(wsSeen) :
             wsSeen[i] = "good" => \E k \in 1..Len(wsDispatched) : wsDispatched[k] = i

FillPrice(t, mp) == (IF t.px = NoPrice THEN mp ELSE t.px) * DecimalScale

\* C26: a fill that takes the position through zero leaves the average price
\* at the price of the fill, and a flat position has average price zero.
C26_CrossingResetsAverage ==
    [][nOrders' # nOrders
          => /\ (lastTrade'.out = "ok" /\ ledger.quantity * ledger'.quantity < 0)
                  => ledger'.avg_price = FillPrice(lastTrade', price)
             /\ ledger'.quantity = 0 => ledger'.avg_price = 0]_vars

\* the closing quantity of a fill of the given size against quantity q
ClosingQuantity(q, size) == Min(Abs(q), size)

\* C27: a fill against the position realizes (price - average) x closing
\* quantity for a sell against a long and (average - price) x closing quantity
\* for a buy against a short, closing quantity being min(|quantity|, fill); any
\* other fill realizes 0; the amount is added to the cumulative realized PnL
\* and recorded with the trade.
C27_RealizedPnl ==
    [][(nOrders' # nOrders /\ lastTrade'.out = "ok")
          => \E realized \in
                {IF lastTrade'.side = "sell" /\ ledger.quantity > 0
                 THEN (FillPrice(lastTrade', price) - ledger.avg_price)
                          * ClosingQuantity(ledger.quantity, lastTrade'.quantity)
                 ELSE IF lastTrade'.side = "buy" /\ ledger.quantity < 0
                 THEN (ledger.avg_price - FillPrice(lastTrade', price))
                          * ClosingQuantity(ledger.quantity, lastTrade'.quantity)
                 ELSE 0} :
                /\ ledger'.total_pnl = ledger.total_pnl + realized
                /\ ledger'.trades[Len(ledger'.trades)].realized_pnl = realized]_vars

\* C27 witness: a fill larger than the open quantity went through against the
\* position and realized a non-zero amount
C27_Witness ==
    /\ lastTrade.side # "none"
    /\ lastTrade.out = "ok"
    /\ lastTrade.pre.quantity # 0
    /\ lastTrade.quantity > Abs(lastTrade.pre.quantity)
    /\ ledger.quantity * lastTrade.pre.quantity < 0
    /\ ledger.total_pnl # lastTrade.pre.total_pnl

\* ------------------------------------------------------------ fan-out failure claims
\* C21: a websocket whose send_text raised is no longer listed for the symbol,
\* and a batch taken afterwards hands it nothing.
C21_FailedSubscriberRemoved ==
    [][/\ \A w \in fanSends'.errored : w \notin fanConns'
       /\ fanTaken' # fanTaken =>
             \A w \in fanSends.errored : fanDelivered'[w] = fanDelivered[w]]_vars

RECURSIVE SumStray(_, _)
SumStray(stray, n) == IF n = 0 THEN 0 ELSE stray[n] + SumStray(stray, n - 1)

\* send_text tasks created and not yet ended
InFlight == Cardinality(fanSends.gather) + SumStray(fanSends.stray, MaxSubs)

\* C30: the send_text tasks in flight never outnumber max_concurrent_broadcasts.
C30_InFlightWithinLimit == InFlight <= MaxConcurrentBroadcasts

\* ------------------------------------------------------------ stop ordering claim
\* position of the first x among the effects fx of a call (0 = absent)
FirstIndex(fx, x) ==
    IF \E i \in 1 .. Len(fx) : fx[i] = x
    THEN CHOOSE i \in 1 .. Len(fx) : fx[i] = x /\ \A k \in 1 .. (i - 1) : fx[k] # x
    ELSE 0

\* C23: when a stop() of a strategy that has a polling task returns, the task
\* was cancelled before the Stopped status was saved and has terminated.
C23_CancelAwaitThenPersist ==
    [][\A c \in {1, 2} :
         (/\ callPc[c] = "on_stop"
          /\ callPc'[c] = "idle"
          /\ last'.op = "stop"
          /\ last'.out = "ok"
          /\ taskRef # 0
          /\ taskPc[taskRef] # "free")
            => /\ FirstIndex(last'.fx, "cancel") > 0
               /\ FirstIndex(last'.fx, "cancel") < FirstIndex(last'.fx, "persist")
               /\ taskPc'[taskRef] = "free"]_vars

\* ------------------------------------------------------------ advisory claim
\* C22: a request for analysis that times out or fails returns the
\* recommendation of the most recent successful request and leaves the cached
\* analysis as it was.
C22_FailureReusesCache ==
    [][(nAdvCalls' # nAdvCalls /\ advLast'.failed)
          => /\ advLast'.ret = adv.good
             /\ adv'.cache = adv.cache]_vars

\* ------------------------------------------------------------ order book claim
\* the prices of a list of levels
BookPrices(levels) == {levels[i][1] : i \in 1 .. Len(levels)}

\* the levels of a list, as a set
LevelSet(levels) == {levels[i] : i \in 1 .. Len(levels)}

RECURSIVE SortedByPrice(_)
SortedByPrice(S) ==
    IF S = {} THEN <<>>
    ELSE LET lo == CHOOSE l \in S : \A o \in S : l[1] <= o[1]
         IN <<lo>> \o SortedByPrice(S \ {lo})

\* the book the update upd makes of the book old: the levels of old it does not
\* mention and its own levels of non-zero size, by ascending price
MergedBook(old, upd) ==
    SortedByPrice({l \in LevelSet(old) : l[1] \notin BookPrices(upd)}
                  \cup {l \in LevelSet(upd) : l[2] > 0})

\* C25: an order-book message is merged into the book held: zero-size levels
\* removed, the others inserted or replaced, unmentioned levels kept, the
\* result sorted by price.
C25_BookMerged ==
    [][nBookUpdates' # nBookUpdates
          => /\ book' = MergedBook(book, bookLast')
             /\ mdBook' = MergedBook(mdBook, bookLast')]_vars

\* ------------------------------------------------------------ manager task claims
\* C24: a heartbeat ping that is followed by no inbound message within the
\* grace window ends with the connection declared dead.
C24_SilenceDeclaredDead ==
    (lp.last.op = "ping" /\ lp.last.silent) => lp.last.declared

\* C28: once disconnect() has returned, no heartbeat, receive or processing
\* task is alive, the socket is closed, the manager is not connected, and no
\* connection is made until the owner asks for one.
C28_DisconnectIsFinal ==
    lp.closed => /\ \A k \in TaskKinds : Alive(k) = 0
                 /\ lp.link = "none"
                 /\ ~lp.connected

\* C29: at most one heartbeat loop, one receive loop and one processing loop
\* are alive at any time.
C29_OneLoopOfEachKind == \A k \in TaskKinds : Alive(k) <= 1

\* ------------------------------------------------------------ worker lifetime claim
\* C31: the symbol has a queue and exactly one live worker when it has
\* subscribers, and neither a queue nor a worker when it has none.
C31_WorkerIffSubscribers ==
    IF fanConns # {}
    THEN fanSends.queue /\ fanSends.workers = 1
    ELSE ~fanSends.queue /\ fanSends.workers = 0

\* the last subscriber has left a symbol whose worker had taken a batch
C31_Witness ==
    /\ fanConns = {}
    /\ fanTaken > 0
    /\ ~fanSends.queue
    /\ fanSends.workers = 0

\* ------------------------------------------------------------ buffer claim
\* the buffer the last message went into, before and after
BufferOf(ts, cs, l) == IF l.kind = "trades" THEN ts ELSE cs[l.interval]

BufferLimit(l) == IF l.kind = "trades" THEN MaxTradeCache ELSE MaxKlineCache

\* C32: the trade buffer and every candle buffer stay within their limits, and
\* a new entry put into a full buffer evicts the oldest entry and is kept as
\* the newest.
C32_BuffersBounded ==
    [][/\ Len(okxTrades') <= MaxTradeCache
       /\ \A i \in Intervals : Len(okxCandles'[i]) <= MaxKlineCache
       /\ (nOkxOps' # nOkxOps /\ okxLast'.full /\ okxLast'.fresh /\ Len(okxLast'.entries) = 1)
             => BufferOf(okxTrades', okxCandles', okxLast')
                  = Tail(BufferOf(okxTrades, okxCandles, okxLast')) \o okxLast'.entries]_vars

\* a new entry has gone into a full buffer
C32_Witness ==
    /\ okxLast.full
    /\ okxLast.fresh
    /\ Len(okxLast.entries) = 1
    /\ Len(BufferOf(okxTrades, okxCandles, okxLast)) = BufferLimit(okxLast)

\* ------------------------------------------------------------ kline cache claim
\* C40: update_kline on a non-empty cache entry leaves the previous series with
\* the candle upserted by timestamp and truncated to the newest entries.
C40_KlineUpserted ==
    [][(nKlineOps' # nKlineOps /\ klineLast'.cached /\ klineCache # <<>>)
          => klineCache' = UpdatedKlines(klineCache, klineLast'.kline)]_vars

\* ------------------------------------------------------------ lifecycle frame claims
\* the step is a lifecycle call made in FSM state f and rejected with err
RejectedIn(f, err) ==
    /\ last' # last
    /\ last'.out = "raised"
    /\ last'.err = err
    /\ last'.pre = Snapshot
    /\ fsm = f

\* C33: a rejected lifecycle call (start() while Running, stop() while Stopped,
\* pause() while Stopped or Error) changes neither the running flag, nor the
\* polling task, nor the persisted status, and publishes nothing.
C33_RejectionHasNoEffect ==
    [][(\/ RejectedIn("Running", "already_running")
        \/ RejectedIn("Stopped", "not_running")
        \/ RejectedIn("Stopped", "cannot_pause")
        \/ RejectedIn("Error", "cannot_pause"))
          => /\ running' = running
             /\ taskRef' = taskRef
             /\ taskCancel' = taskCancel
             /\ store' = store
             /\ last'.fx = <<>>]_vars

\* C34: while no lifecycle call is in progress, the Running state goes with a
\* set running flag and a live polling task, and every other state with a
\* cleared flag.
C34_FlagFollowsState ==
    (\A c \in DOMAIN callPc : callPc[c] = "idle")
       => IF fsm = "Running"
          THEN /\ running
               /\ taskRef # 0
               /\ taskPc[taskRef] # "free"
               /\ ~taskCancel[taskRef]
          ELSE ~running

\* C35: when a lifecycle operation has completed, by returning or by raising,
\* the persisted status is the FSM state.
C35_StoreFollowsState ==
    (last.op # "none" /\ \A c \in DOMAIN callPc : callPc[c] = "idle") => store.status = fsm

\* C36: once pause() has returned, and until start() is called again, no step
\* changes quantity, average price, total PnL, total commission, daily PnL or
\* the trade log.
C36_NoTradeAfterPause ==
    [][(fence = "pause" /\ fence' = "pause") => LedgerView(ledger') = LedgerView(ledger)]_vars

\* ------------------------------------------------------------ closing orders
\* the call recorded in t, made on the ledger L at market price mp, is a closing
\* order: the opposite side, the open quantity, the market price (as a market
\* order or as a limit order at that price), a notional within the order-value
\* bounds
ClosingOrder(t, L, mp) ==
    /\ L.quantity # 0
    /\ t.side = (IF L.quantity > 0 THEN "sell" ELSE "buy")
    /\ t.quantity = Abs(L.quantity)
    /\ t.px \in {NoPrice, mp}
    /\ t.quantity * mp >= limit.min_order_value
    /\ t.quantity * mp <= limit.max_order_value

\* C37 (as claimed): a closing order on a non-flat position is not refused and
\* brings the quantity to zero.
C37_ClosingOrderPasses ==
    [][(nOrders' # nOrders /\ ClosingOrder(lastTrade', ledger, price))
          => (lastTrade'.out = "ok" /\ ledger'.quantity = 0)]_vars

\* C37, for the class that constructs its orders (the override of
\* _validate_trade_params) under limits without a margin requirement
C37_ClosingOrderPassesOverride ==
    [][(/\ nOrders' # nOrders
        /\ validator = "override"
        /\ limit.min_margin_ratio = 0
        /\ ClosingOrder(lastTrade', ledger, price))
          => (lastTrade'.out = "ok" /\ ledger'.quantity = 0)]_vars

\* ------------------------------------------------------------ realized PnL of a trip
RECURSIVE NetNotional(_)
\* total sell notional minus total buy notional of the recorded fills
NetNotional(trades) ==
    IF trades = <<>> THEN 0
    ELSE (IF Head(trades).side = "SELL" THEN 1 ELSE -1)
             * Head(trades).price * Head(trades).quantity
         + NetNotional(Tail(trades))

\* the fills recorded since the position last left zero
FillsSinceFlat == SubSeq(ledger.trades, openMark.n + 1, Len(ledger.trades))

\* the position has left zero and come back to it
BackToFlat ==
    /\ openMark.n >= 0
    /\ Len(ledger.trades) > openMark.n
    /\ ledger.quantity = 0

\* C38 (as claimed): with zero commission, when the position is back at zero
\* the realized PnL accumulated since it left zero is the total sell notional
\* minus the total buy notional of the fills in between.
C38_PnlIsNetNotional ==
    (rate = 0 /\ BackToFlat)
        => ledger.total_pnl - openMark.pnl = NetNotional(FillsSinceFlat) * DecimalScale

\* the fills since the position left zero are one opening fill followed by
\* fills of the opposite side only: the position never went through zero
ClosedByPartialFills ==
    /\ BackToFlat
    /\ Len(FillsSinceFlat) >= 3
    /\ \A i \in 2 .. Len(FillsSinceFlat) : FillsSinceFlat[i].side # FillsSinceFlat[1].side

\* C38, for a position opened by one fill and closed by several partial fills
C38_PartialFillsNetNotional ==
    (rate = 0 /\ ClosedByPartialFills)
        => ledger.total_pnl - openMark.pnl = NetNotional(FillsSinceFlat) * DecimalScale

\* ------------------------------------------------------------ last message
\* every connected websocket has been sent message n last, and the send has ended
AllReceivedLast(n) ==
    \A w \in fanConns :
        /\ fanDelivered[w] # <<>>
        /\ fanDelivered[w][Len(fanDelivered[w])] = n
        /\ w \notin fanSends.gather
        /\ fanSends.stray[w] = 0

\* message n is the last one published so far, it was queued, no websocket has
\* joined, left or broken since, and none of the connected ones is broken
QuietAfter(n) ==
    /\ Len(fanPubTimes) = n
    /\ fanSends.quiet
    /\ fanConns # {}
    /\ fanSends.broken \cap fanConns = {}

\* C39: when message n has been published to websockets that stay connected and
\* whose sends succeed, then from some point on either a further message has
\* been published, a websocket has joined, left or broken, or message n is the
\* last message every websocket has received.
C39_LastMessageArrives ==
    \A n \in 1 .. MaxMsgs : QuietAfter(n) ~> [](~QuietAfter(n) \/ AllReceivedLast(n))

\* C39 witness: the last of several messages has reached two websockets, after
\* a batch that held more than one message
C39_Witness ==
    /\ QuietAfter(MaxMsgs)
    /\ Cardinality(fanConns) = 2
    /\ AllReceivedLast(MaxMsgs)
    /\ fanTaken < MaxMsgs
    /\ fanQueue = <<>>

====
